---- MODULE Spec2Model ----
(***************************************************************************)
(* The playback-session controller of src/ui/pages/player.rs               *)
(* (PlayerPage and PlayerControls) as a state machine.                     *)
(*                                                                         *)
(* Every future started with glib::spawn_future_local is a task; all tasks *)
(* run on the one GTK main loop, so a step of the model is the code a task *)
(* runs between two `.await`s.  An `.await` on a Player or Backend call,   *)
(* on a timer and on a lock is a point where other tasks may run.  Two     *)
(* consecutive pieces of code are one step only where the code between     *)
(* the awaits touches nothing another task can touch at that point (the    *)
(* comments of the actions say where and why).                             *)
(*                                                                         *)
(* The Player (crate::player::Player) and the Backend (MediaBackend) are   *)
(* collaborators whose code is not in this file: their calls return Ok or  *)
(* Err nondeterministically and the Player's own state is modelled from    *)
(* the interface the specification gives (section 6).                      *)
(***************************************************************************)
EXTENDS Integers, Sequences, FiniteSets, TLC

----------------------------------------------------------------------------
(* Bounds of the model: how many times each operation is started.          *)
MaxLoads == 2
MaxClicks == 2
MaxStops == 1
MaxSwitches == 1
MaxDrags == 2
MaxTicks == 1
MaxQuality == 1
MaxSessions == 1
MaxDur == 10
MaxMotions == 3
MaxSkips == 2

(* Option::None for a position, a duration, a MediaItem, a StreamInfo, a   *)
(* cookie.                                                                 *)
None == -1

(* line 105: the delay of the hide-controls timer, Duration::from_secs(2) *)
HideDelay == 2

----------------------------------------------------------------------------
(* Tasks.  <<kind, n>>: the n-th call of load_media, the n-th click, ...   *)
(* A completion monitor and a track population are started by a load and   *)
(* carry the number of that load.                                          *)
Loads == {"load"} \X (1..MaxLoads)
Clicks == {"click"} \X (1..MaxClicks)
Stops == {"stop"} \X (1..MaxStops)
Switches == {"switch"} \X (1..MaxSwitches)
Drags == {"drag"} \X (1..MaxDrags)
Ticks == {"tick"} \X (1..MaxTicks)
Monitors == {"monitor"} \X (1..MaxLoads)
Populates == {"populate"} \X (1..MaxLoads)
Skips == {"skip"} \X (1..MaxSkips)
Tasks == Loads \cup Clicks \cup Stops \cup Switches \cup Drags \cup Ticks
           \cup Monitors \cup Populates \cup Skips
NoTask == <<"none", 0>>

(* Option<StreamInfo>::None *)
NoStream == [url |-> None, quality |-> 0]

VARIABLES
    pc,                   \* where each task stands
    loc,                  \* one local value of each task (see the actions)
    seen,                 \* a second local value of a task
    before,               \* history: the Player's state when a task started
    steps,                \* history: per task, the calls it made and results
                          \*   it got (see the actions)
    pstate,               \* Player: PlaybackState
    ppos,                 \* Player: get_position()
    pdur,                 \* Player: get_duration()
    purl,                 \* Player: the source loaded
    paudio,               \* Player: get_audio_tracks() (indices)
    psubs,                \* Player: get_subtitle_tracks() (indices)
    reached,              \* history: the items at which the Player was Stopped
                          \*   above the watched threshold
    plock,                \* player: Arc<RwLock<Player>>
    mlock,                \* the RwLock of current_media_item
    current_media_item,   \* PlayerPage.current_media_item
    current_stream_info,  \* PlayerPage.current_stream_info
    inhibit_cookie,       \* PlayerPage.inhibit_cookie
    inhibited,            \* cookies app.inhibit returned, not yet uninhibited
    next_cookie,          \* the next cookie app.inhibit returns
    is_seeking,           \* PlayerControls.is_seeking
    icon,                 \* play_button's icon name
    progress,             \* progress_bar's value
    time_label,           \* time_label's text, a sequence of characters
    video_container,      \* the video widget in video_container
    has_root,             \* widget.root() is a window of an application
    action_group,         \* the window's "player" action group
    audio_menu,           \* audio_button: [entries, sensitive]
    subtitle_menu,        \* subtitle_button: [entries, sensitive]
    quality_menu,         \* quality_button's menu entries
    tracks,               \* per population task: the track lists it read
    watched,              \* the calls of Backend.mark_watched so far
    hover_added,          \* hover_controller has been added to the overlay
    controls_visible,     \* controls.widget.is_visible()
    hide_timer,           \* hide_timer: Option<SourceId>
    timers,               \* the hide timers scheduled and neither fired nor
                          \*   removed: SourceId -> seconds left
    next_timer,           \* the next SourceId timeout_add_local returns
    idle_time,            \* seconds since the last pointer motion (capped)
    position_timers       \* the sources start_position_timer has added to
                          \*   the main loop and that are still there

vars == <<pc, loc, seen, before, steps, pstate, ppos, pdur, purl, paudio, psubs, reached,
          plock, mlock,
          current_media_item, current_stream_info, inhibit_cookie, inhibited,
          next_cookie, is_seeking, icon, progress, time_label, video_container,
          has_root, action_group, audio_menu, subtitle_menu, quality_menu, tracks,
          watched, hover_added, controls_visible, hide_timer, timers, next_timer,
          idle_time, position_timers>>

playerVars == <<pstate, ppos, pdur, purl, paudio, psubs, reached>>
inhibitVars == <<inhibit_cookie, inhibited, next_cookie>>
sessionVars == <<current_media_item, current_stream_info>>
menuVars == <<action_group, audio_menu, subtitle_menu, quality_menu, tracks>>
displayVars == <<progress, time_label>>
hoverVars == <<hover_added, controls_visible, hide_timer, timers, next_timer,
               idle_time, position_timers>>

----------------------------------------------------------------------------
(* tokio::sync::RwLock.  A lock is [readers, writer, queue]; the queue is  *)
(* first-in first-out, so a writer that waits holds back later readers.    *)
(* In this file only load_media takes write access (player.write(),        *)
(* current_media_item.write()); every other task takes read access.        *)
IsWriter(t) == t[1] = "load"

FreeLock == [readers |-> {}, writer |-> NoTask, queue |-> <<>>]

Compatible(l, t) ==
    IF IsWriter(t) THEN l.writer = NoTask /\ l.readers = {}
                   ELSE l.writer = NoTask

Grant(l, t) ==
    IF IsWriter(t) THEN [l EXCEPT !.writer = t]
                   ELSE [l EXCEPT !.readers = @ \cup {t}]

RECURSIVE Wake(_)
Wake(l) ==
    IF l.queue # <<>> /\ Compatible(l, Head(l.queue))
    THEN Wake(Grant([l EXCEPT !.queue = Tail(@)], Head(l.queue)))
    ELSE l

(* lock.read().await / lock.write().await reached by task t *)
Request(l, t) ==
    IF l.queue = <<>> /\ Compatible(l, t) THEN Grant(l, t)
                                          ELSE [l EXCEPT !.queue = Append(@, t)]

(* the guard of task t is dropped *)
Release(l, t) ==
    Wake([l EXCEPT !.readers = @ \ {t},
                   !.writer = IF @ = t THEN NoTask ELSE @])

Holds(l, t) == t \in l.readers \/ l.writer = t

----------------------------------------------------------------------------
(* The first task of a kind that has not started; the calls of one kind    *)
(* are numbered in the order they start.                                   *)
Started(t) == pc[t] # "idle"
Ended(t) == pc[t] \in {"done", "ok", "err_backend", "err_stream", "err_player"}
Next1(t) == <<t[1], t[2] + 1>>
Prev1(t) == <<t[1], t[2] - 1>>
MayStart(t) == pc[t] = "idle" /\ (t[2] > 1 => Started(Prev1(t)))

Goto(t, l) == pc' = [pc EXCEPT ![t] = l]
Log(t, entries) == steps' = [steps EXCEPT ![t] = @ \o entries]

(* lines 1392-1403: format_duration.  A text is a sequence of characters.  *)
(* {} writes a number in decimal without padding, {:02} pads it with       *)
(* zeros to at least two digits.                                           *)
Digit(n) == <<"0", "1", "2", "3", "4", "5", "6", "7", "8", "9">>[n + 1]

RECURSIVE Decimal(_)
Decimal(n) == IF n < 10 THEN <<Digit(n)>>
              ELSE Decimal(n \div 10) \o <<Digit(n % 10)>>

Padded2(n) == IF n < 10 THEN <<"0", Digit(n)>> ELSE Decimal(n)

format_duration_unpadded(total_seconds) ==
    LET hours == total_seconds \div 3600
        minutes == (total_seconds % 3600) \div 60
        seconds == total_seconds % 60
    IN  IF hours > 0
        THEN Decimal(hours) \o <<":">> \o Decimal(minutes) \o <<":">>
                 \o Decimal(seconds)
        ELSE Decimal(minutes) \o <<":">> \o Decimal(seconds)

format_duration(total_seconds) ==
    LET hours == total_seconds \div 3600
        minutes == (total_seconds % 3600) \div 60
        seconds == total_seconds % 60
    IN  IF hours > 0
        THEN Decimal(hours) \o <<":">> \o Padded2(minutes) \o <<":">>
                 \o Padded2(seconds)
        ELSE Decimal(minutes) \o <<":">> \o Padded2(seconds)

----------------------------------------------------------------------------
Init ==
    /\ pc = [t \in Tasks |-> "idle"]
    /\ loc = [t \in Tasks |-> None]
    /\ seen = [t \in Tasks |-> None]
    /\ before = [t \in Tasks |-> "Idle"]
    /\ steps = [t \in Tasks |-> <<>>]
    /\ pstate = "Idle"
    /\ ppos = None
    /\ pdur = None
    /\ purl = None
    /\ paudio = {}
    /\ psubs = {}
    /\ reached = {}
    /\ plock = FreeLock
    /\ mlock = FreeLock
    /\ current_media_item = None
    /\ current_stream_info = NoStream
    /\ inhibit_cookie = None
    /\ inhibited = {}
    /\ next_cookie = 1
    /\ is_seeking = FALSE
    /\ icon = "media-playback-start-symbolic"
    /\ progress = 0
    /\ time_label = format_duration(0)
    /\ video_container = None
    /\ has_root \in BOOLEAN
    /\ action_group = {}
    /\ audio_menu = [entries |-> {}, sensitive |-> TRUE]
    /\ subtitle_menu = [entries |-> {}, sensitive |-> TRUE]
    /\ quality_menu = {}
    /\ tracks = [t \in Populates |-> [audio |-> {}, subs |-> {}]]
    /\ watched = <<>>
    /\ hover_added = FALSE
    /\ controls_visible = FALSE
    /\ hide_timer = None
    /\ timers = <<>>
    /\ next_timer = 1
    /\ idle_time = HideDelay
    /\ position_timers = 1

----------------------------------------------------------------------------
(* The Player.  A call is in flight from the step that issues it to the    *)
(* step in which it returns; its effect is applied when it returns.  A     *)
(* call that returns Err changes nothing.                                  *)
Positions == {0, MaxDur - 1, MaxDur}

(* line 589: position / duration > 0.9 *)
WatchedThreshold(position, duration) == 10 * position > 9 * duration

(* history: the current item is added to `reached` by a step that leaves   *)
(* the Player Stopped with position / duration > 0.9                       *)
Reached(state, position, duration) ==
    IF /\ state = "Stopped"
       /\ position # None
       /\ duration # None
       /\ current_media_item # None
       /\ WatchedThreshold(position, duration)
    THEN reached \cup {current_media_item}
    ELSE reached

PlayerLoadMedia(url, ok) ==
    /\ pstate' = IF ok THEN "Loading" ELSE pstate
    /\ purl' = IF ok THEN url ELSE purl
    /\ ppos' = IF ok THEN 0 ELSE ppos
    /\ pdur' = IF ok THEN MaxDur ELSE pdur
    /\ paudio' = IF ok THEN {} ELSE paudio
    /\ psubs' = IF ok THEN {} ELSE psubs
    /\ UNCHANGED reached

PlayerPlay(ok) ==
    /\ pstate' = IF ok THEN "Playing" ELSE pstate
    /\ UNCHANGED <<ppos, pdur, purl, paudio, psubs, reached>>

PlayerPause(ok) ==
    /\ pstate' = IF ok THEN "Paused" ELSE pstate
    /\ UNCHANGED <<ppos, pdur, purl, paudio, psubs, reached>>

PlayerStop(ok) ==
    /\ pstate' = IF ok THEN "Stopped" ELSE pstate
    /\ reached' = Reached(pstate', ppos, pdur)
    /\ UNCHANGED <<ppos, pdur, purl, paudio, psubs>>

PlayerSeek(target, ok) ==
    /\ ppos' = IF ok THEN target ELSE ppos
    /\ reached' = Reached(pstate, ppos', pdur)
    /\ UNCHANGED <<pstate, pdur, purl, paudio, psubs>>

(* The stream plays to its end. *)
PlayerEndOfStream ==
    /\ pstate = "Playing"
    /\ purl # None
    /\ pstate' = "Stopped"
    /\ ppos' = pdur
    /\ reached' = Reached("Stopped", pdur, pdur)
    /\ UNCHANGED <<pc, loc, seen, before, steps, pdur, purl, paudio, psubs, plock, mlock,
                   sessionVars, inhibitVars, is_seeking, icon, displayVars,
                   video_container, has_root, hoverVars, menuVars, watched>>

(* Playback advances. *)
PlayerProgress ==
    /\ pstate = "Playing"
    /\ purl # None
    /\ \E p \in Positions : p > ppos /\ ppos' = p
    /\ UNCHANGED <<pc, loc, seen, before, steps, pstate, pdur, purl, paudio, psubs,
                   reached, plock, mlock, sessionVars, inhibitVars, is_seeking, icon,
                   displayVars, video_container, has_root, hoverVars, menuVars, watched>>

(* The pipeline fails. *)
PlayerFault ==
    /\ pstate \in {"Loading", "Playing", "Paused"}
    /\ pstate' = "Error"
    /\ UNCHANGED <<pc, loc, seen, before, steps, ppos, pdur, purl, paudio, psubs,
                   reached, plock, mlock, sessionVars, inhibitVars, is_seeking, icon,
                   displayVars, video_container, has_root, hoverVars, menuVars, watched>>

(* The position and the duration the Player reports for a loaded stream    *)
(* are not bounded by one another: a position past the duration and the    *)
(* duration 0 are reported too, and get_duration may return None while     *)
(* get_position returns a position.  The durations reported are 0, MaxDur  *)
(* and None.                                                               *)
ReportedTimes == {0, 1, MaxDur, MaxDur + 1, 65, 3600, 3665}

PlayerReports ==
    /\ pstate \in {"Loading", "Playing", "Paused"}
    /\ purl # None
    /\ \E position \in ReportedTimes, duration \in {0, MaxDur, None} :
          /\ <<position, duration>> # <<ppos, pdur>>
          /\ ppos' = position
          /\ pdur' = duration
    /\ UNCHANGED <<pc, loc, seen, before, steps, pstate, purl, paudio, psubs,
                   reached, plock, mlock, sessionVars, inhibitVars, is_seeking, icon,
                   displayVars, video_container, has_root, hoverVars, menuVars,
                   watched>>

(* The playbin discovers the tracks of the stream once it is playing. *)
AudioTrackLists == {{0}, {0, 1}}
SubtitleTrackLists == {{-1}, {-1, 0}}

PlayerDiscoverTracks ==
    /\ pstate = "Playing"
    /\ purl # None
    /\ \E a \in AudioTrackLists, b \in SubtitleTrackLists :
          /\ paudio \subseteq a
          /\ psubs \subseteq b
          /\ <<a, b>> # <<paudio, psubs>>
          /\ paudio' = a
          /\ psubs' = b
    /\ UNCHANGED <<pc, loc, seen, before, steps, pstate, ppos, pdur, purl, reached,
                   plock, mlock, sessionVars, inhibitVars, is_seeking, icon,
                   displayVars, video_container, has_root, hoverVars, menuVars, watched>>

(* The page is put into the application window. *)
AttachToWindow ==
    /\ ~has_root
    /\ has_root' = TRUE
    /\ UNCHANGED <<pc, loc, seen, before, steps, playerVars, plock, mlock, sessionVars,
                   inhibitVars, is_seeking, icon, displayVars, video_container,
                   menuVars, watched, hoverVars>>

----------------------------------------------------------------------------
(* Suspend inhibition: uninhibit_suspend / uninhibit_suspend_static take   *)
(* the stored cookie and hand it to app.uninhibit when the widget has a    *)
(* root window with an application.                                        *)
AfterUninhibit(held) ==
    IF inhibit_cookie # None /\ has_root THEN held \ {inhibit_cookie} ELSE held

----------------------------------------------------------------------------
(* StreamInfo of the load n with q quality options; the URL of its k-th    *)
(* option.                                                                 *)
StreamInfo(n, q) == [url |-> 10 * n, quality |-> q]
QualityUrl(info, k) == info.url + k

(* populate_quality_menu: one entry per option (entry 0, the current       *)
(* resolution without an action, when there is none) and, when the widget  *)
(* has a root, one action set-quality-k per option; the new action group   *)
(* replaces the window's "player" group.                                   *)
QualityAction(info, k) == [name |-> "set-quality", index |-> k, url |-> QualityUrl(info, k)]
QualityActions(info) == {QualityAction(info, k) : k \in 1..info.quality}

populate_quality_menu(info) ==
    /\ quality_menu' = IF info.quality = 0 THEN {0}
                       ELSE {QualityAction(info, k).index : k \in 1..info.quality}
    /\ action_group' = IF has_root THEN QualityActions(info) ELSE action_group

----------------------------------------------------------------------------
(* PlayerPage::load_media, task t = <<"load", n>>; the MediaItem loaded is *)
(* item n.                                                                 *)

(* line 318: current_media_item.write().await is reached *)
LoadBegin(t) ==
    /\ MayStart(t)
    /\ mlock' = Request(mlock, t)
    /\ Goto(t, "w_item")
    /\ UNCHANGED <<loc, seen, before, steps, playerVars, plock, sessionVars, inhibitVars,
                   is_seeking, icon, displayVars, video_container, has_root, hoverVars,
                   menuVars, watched>>

(* lines 318-328: the item is stored; without an active backend the call   *)
(* returns Err, with one get_stream_url is called.  backend_manager is     *)
(* read by no other task of this file.                                     *)
LoadStoreItem(t) ==
    /\ pc[t] = "w_item"
    /\ Holds(mlock, t)
    /\ current_media_item' = t[2]
    /\ mlock' = Release(mlock, t)
    /\ \E backend \in BOOLEAN :
          /\ Goto(t, IF backend THEN "resolving" ELSE "err_backend")
          /\ Log(t, IF backend THEN <<"resolve">> ELSE <<>>)
    /\ UNCHANGED <<loc, seen, before, playerVars, plock, current_stream_info,
                   inhibitVars, is_seeking, icon, displayVars, video_container,
                   has_root, hoverVars, menuVars, watched>>

(* load_media emptying the video container before it looks at the result  *)
(* of get_stream_url.                                                      *)
LoadResolvedClearingFirst(t) ==
    /\ pc[t] = "resolving"
    /\ \/ /\ Goto(t, "err_stream")
          /\ video_container' = None
          /\ Log(t, <<"clear">>)
          /\ UNCHANGED <<loc, plock, current_stream_info>>
       \/ \E q \in 0..MaxQuality :
             /\ current_stream_info' = StreamInfo(t[2], q)
             /\ loc' = [loc EXCEPT ![t] = q]
             /\ video_container' = None
             /\ Log(t, <<"clear">>)
             /\ plock' = Request(plock, t)
             /\ Goto(t, "w_player")
    /\ UNCHANGED <<seen, before, playerVars, mlock, current_media_item, inhibitVars,
                   is_seeking, icon, displayVars, has_root, hoverVars, menuVars, watched>>

(* lines 328-353: get_stream_url returns; on Ok the stream info is stored, *)
(* the video container is emptied and player.write().await is reached.     *)
(* current_stream_info is written here only and read nowhere.              *)
LoadResolved(t) ==
    /\ pc[t] = "resolving"
    /\ \/ /\ Goto(t, "err_stream")
          /\ UNCHANGED <<loc, steps, plock, current_stream_info, video_container>>
       \/ \E q \in 0..MaxQuality :
             /\ current_stream_info' = StreamInfo(t[2], q)
             /\ loc' = [loc EXCEPT ![t] = q]
             /\ video_container' = None
             /\ Log(t, <<"clear">>)
             /\ plock' = Request(plock, t)
             /\ Goto(t, "w_player")
    /\ UNCHANGED <<seen, before, playerVars, mlock, current_media_item, inhibitVars,
                   is_seeking, icon, displayVars, has_root, hoverVars, menuVars, watched>>

(* load_media with Player.load_media called before the video widget is    *)
(* appended to the container.                                              *)
LoadAttachAfterLoadMedia(t) ==
    /\ pc[t] = "w_player"
    /\ Holds(plock, t)
    /\ video_container' = t[2]
    /\ Log(t, <<"load_media", "attach">>)
    /\ Goto(t, "load_media")
    /\ UNCHANGED <<loc, seen, before, playerVars, plock, mlock, sessionVars, inhibitVars,
                   is_seeking, icon, displayVars, has_root, hoverVars, menuVars, watched>>

(* lines 353-364: with the write guard, the video widget is created and    *)
(* appended and Player.load_media is called.                               *)
LoadAttach(t) ==
    /\ pc[t] = "w_player"
    /\ Holds(plock, t)
    /\ video_container' = t[2]
    /\ Log(t, <<"attach", "load_media">>)
    /\ Goto(t, "load_media")
    /\ UNCHANGED <<loc, seen, before, playerVars, plock, mlock, sessionVars, inhibitVars,
                   is_seeking, icon, displayVars, has_root, hoverVars, menuVars, watched>>


(* set_media_info with its call of populate_track_menus (line 1119) left   *)
(* in: the track population runs before Player.play is called.             *)
LoadMediaReturnPopulating(t) ==
    /\ pc[t] = "load_media"
    /\ \E ok \in BOOLEAN :
          /\ PlayerLoadMedia(StreamInfo(t[2], loc[t]).url, ok)
          /\ IF ok
             THEN /\ populate_quality_menu(StreamInfo(t[2], loc[t]))
                  /\ pc' = [pc EXCEPT ![t] = "play",
                                      ![<<"populate", t[2]>>] = "delay"]
                  /\ Log(t, <<"metadata", "play">>)
                  /\ UNCHANGED plock
             ELSE /\ plock' = Release(plock, t)
                  /\ Goto(t, "err_player")
                  /\ UNCHANGED <<quality_menu, action_group, steps>>
    /\ UNCHANGED <<loc, seen, before, mlock, sessionVars, inhibitVars, is_seeking, icon,
                   displayVars, video_container, has_root, hoverVars, audio_menu,
                   subtitle_menu, tracks, watched>>

(* lines 364-375: load_media returns; Err is returned to the caller (`?`), *)
(* on Ok set_media_info populates the quality menu (it has no await of its *)
(* own) and Player.play is called.                                         *)
LoadMediaReturn(t) ==
    /\ pc[t] = "load_media"
    /\ \E ok \in BOOLEAN :
          /\ PlayerLoadMedia(StreamInfo(t[2], loc[t]).url, ok)
          /\ IF ok
             THEN /\ populate_quality_menu(StreamInfo(t[2], loc[t]))
                  /\ Goto(t, "play")
                  /\ Log(t, <<"metadata", "play">>)
                  /\ UNCHANGED plock
             ELSE /\ plock' = Release(plock, t)
                  /\ Goto(t, "err_player")
                  /\ UNCHANGED <<quality_menu, action_group, steps>>
    /\ UNCHANGED <<loc, seen, before, mlock, sessionVars, inhibitVars, is_seeking, icon,
                   displayVars, video_container, has_root, hoverVars, audio_menu,
                   subtitle_menu, tracks, watched>>

(* LoadPlayReturn with the icon set before the result of play is looked at *)
LoadPlayReturnPausingFirst(t) ==
    /\ pc[t] = "play"
    /\ icon' = "media-playback-pause-symbolic"
    /\ \E ok \in BOOLEAN :
          /\ PlayerPlay(ok)
          /\ IF ok
             THEN /\ Log(t, <<"inhibit", "populate", "monitor">>)
                  /\ inhibited' = IF has_root
                                  THEN AfterUninhibit(inhibited) \cup {next_cookie}
                                  ELSE AfterUninhibit(inhibited)
                  /\ inhibit_cookie' = IF has_root THEN next_cookie ELSE None
                  /\ next_cookie' = IF has_root THEN next_cookie + 1 ELSE next_cookie
                  /\ pc' = [pc EXCEPT ![t] = "ok",
                                      ![<<"populate", t[2]>>] = "delay",
                                      ![<<"monitor", t[2]>>] = "sleep"]
             ELSE /\ Goto(t, "err_player")
                  /\ UNCHANGED <<inhibitVars, steps>>
    /\ plock' = Release(plock, t)
    /\ UNCHANGED <<loc, seen, before, mlock, sessionVars, is_seeking, displayVars,
                   video_container, has_root, hoverVars, menuVars, watched>>

(* lines 375-416: play returns; Err is returned to the caller.  On Ok the  *)
(* icon becomes "pause", inhibit_suspend runs (uninhibit, app.inhibit,     *)
(* store), the track population and the completion monitor are started     *)
(* and the write guard is dropped.  One step: every other task that        *)
(* touches the icon or the cookie holds a read guard of the player, which  *)
(* the write guard held here excludes.                                     *)
LoadPlayReturn(t) ==
    /\ pc[t] = "play"
    /\ \E ok \in BOOLEAN :
          /\ PlayerPlay(ok)
          /\ IF ok
             THEN /\ icon' = "media-playback-pause-symbolic"
                  /\ Log(t, <<"inhibit", "populate", "monitor">>)
                  /\ inhibited' = IF has_root
                                  THEN AfterUninhibit(inhibited) \cup {next_cookie}
                                  ELSE AfterUninhibit(inhibited)
                  /\ inhibit_cookie' = IF has_root THEN next_cookie ELSE None
                  /\ next_cookie' = IF has_root THEN next_cookie + 1 ELSE next_cookie
                  /\ pc' = [pc EXCEPT ![t] = "ok",
                                      ![<<"populate", t[2]>>] = "delay",
                                      ![<<"monitor", t[2]>>] = "sleep"]
             ELSE /\ Goto(t, "err_player")
                  /\ UNCHANGED <<icon, inhibitVars, steps>>
    /\ plock' = Release(plock, t)
    /\ UNCHANGED <<loc, seen, before, mlock, sessionVars, is_seeking, displayVars,
                   video_container, has_root, hoverVars, menuVars, watched>>

LoadStep(t) ==
    \/ LoadBegin(t)
    \/ LoadStoreItem(t)
    \/ LoadResolved(t)
    \/ LoadAttach(t)
    \/ LoadMediaReturn(t)
    \/ LoadPlayReturn(t)


----------------------------------------------------------------------------
(* The play/pause button's click handler (lines 905-931), task t.          *)

(* line 911: player.read().await is reached *)
ClickBegin(t) ==
    /\ t \in Clicks
    /\ MayStart(t)
    /\ plock' = Request(plock, t)
    /\ Goto(t, "w_player")
    /\ UNCHANGED <<loc, seen, before, steps, playerVars, mlock, sessionVars, inhibitVars,
                   is_seeking, icon, displayVars, video_container, has_root, hoverVars,
                   menuVars, watched>>

(* lines 913-914, 922: the icon decides between Player.play and            *)
(* Player.pause, which is called.                                          *)
ClickToggle(t) ==
    /\ t \in Clicks
    /\ pc[t] = "w_player"
    /\ Holds(plock, t)
    /\ Goto(t, IF icon = "media-playback-start-symbolic" THEN "play" ELSE "pause")
    /\ UNCHANGED <<loc, seen, before, steps, playerVars, plock, mlock, sessionVars, inhibitVars,
                   is_seeking, icon, displayVars, video_container, has_root, hoverVars,
                   menuVars, watched>>

(* lines 914-920: play returns, Ok or Err; the icon becomes "pause" and    *)
(* inhibit_suspend_static reaches inhibit_cookie.write().await.            *)
ClickPlayReturn(t) ==
    /\ t \in Clicks
    /\ pc[t] = "play"
    /\ \E ok \in BOOLEAN :
          /\ PlayerPlay(ok)
          /\ Log(t, IF ok THEN <<"play_ok">> ELSE <<"play_err">>)
    /\ icon' = "media-playback-pause-symbolic"
    /\ Goto(t, "inhibit")
    /\ UNCHANGED <<loc, seen, before, plock, mlock, sessionVars, inhibitVars, is_seeking,
                   displayVars, video_container, has_root, hoverVars, menuVars, watched>>

(* lines 922-928: pause returns, Ok or Err; the icon becomes "play" and    *)
(* uninhibit_suspend_static reaches inhibit_cookie.write().await.          *)
ClickPauseReturn(t) ==
    /\ t \in Clicks
    /\ pc[t] = "pause"
    /\ \E ok \in BOOLEAN :
          /\ PlayerPause(ok)
          /\ Log(t, IF ok THEN <<"pause_ok">> ELSE <<"pause_err">>)
    /\ icon' = "media-playback-start-symbolic"
    /\ Goto(t, "uninhibit")
    /\ UNCHANGED <<loc, seen, before, plock, mlock, sessionVars, inhibitVars, is_seeking,
                   displayVars, video_container, has_root, hoverVars, menuVars, watched>>

(* inhibit_suspend_static, lines 1259-1276: the stored cookie is taken and *)
(* uninhibited, app.inhibit returns a new cookie, and                      *)
(* inhibit_cookie.write().await is reached with the new cookie in hand.    *)
(* Without a root window nothing is inhibited and the handler ends.        *)
ClickInhibit(t) ==
    /\ t \in Clicks
    /\ pc[t] = "inhibit"
    /\ inhibit_cookie' = None
    /\ IF has_root
       THEN /\ inhibited' = AfterUninhibit(inhibited) \cup {next_cookie}
            /\ next_cookie' = next_cookie + 1
            /\ loc' = [loc EXCEPT ![t] = next_cookie]
            /\ Goto(t, "store")
            /\ UNCHANGED plock
       ELSE /\ inhibited' = AfterUninhibit(inhibited)
            /\ plock' = Release(plock, t)
            /\ Goto(t, "done")
            /\ UNCHANGED <<next_cookie, loc>>
    /\ UNCHANGED <<seen, before, steps, playerVars, mlock, sessionVars, is_seeking, icon,
                   displayVars, video_container, has_root, hoverVars, menuVars, watched>>

(* line 1276: the new cookie is stored; the handler ends and its read      *)
(* guard is dropped.                                                       *)
ClickStore(t) ==
    /\ t \in Clicks
    /\ pc[t] = "store"
    /\ inhibit_cookie' = loc[t]
    /\ plock' = Release(plock, t)
    /\ Goto(t, "done")
    /\ UNCHANGED <<loc, seen, before, steps, playerVars, mlock, sessionVars, inhibited,
                   next_cookie, is_seeking, icon, displayVars, video_container,
                   has_root, hoverVars, menuVars, watched>>

(* uninhibit_suspend_static reading the stored cookie without take() *)
ClickUninhibitKeepingCookie(t) ==
    /\ t \in Clicks
    /\ pc[t] = "uninhibit"
    /\ inhibited' = AfterUninhibit(inhibited)
    /\ plock' = Release(plock, t)
    /\ Goto(t, "done")
    /\ UNCHANGED <<loc, seen, before, steps, playerVars, mlock, sessionVars,
                   inhibit_cookie, next_cookie, is_seeking, icon, displayVars,
                   video_container, has_root, hoverVars, menuVars, watched>>

(* uninhibit_suspend_static, lines 1289-1305 *)
ClickUninhibit(t) ==
    /\ t \in Clicks
    /\ pc[t] = "uninhibit"
    /\ inhibit_cookie' = None
    /\ inhibited' = AfterUninhibit(inhibited)
    /\ plock' = Release(plock, t)
    /\ Goto(t, "done")
    /\ UNCHANGED <<loc, seen, before, steps, playerVars, mlock, sessionVars, next_cookie,
                   is_seeking, icon, displayVars, video_container, has_root, hoverVars,
                   menuVars, watched>>

ClickStep(t) ==
    \/ ClickBegin(t)
    \/ ClickToggle(t)
    \/ ClickPlayReturn(t)
    \/ ClickPauseReturn(t)
    \/ ClickInhibit(t)
    \/ ClickStore(t)
    \/ ClickUninhibit(t)

----------------------------------------------------------------------------
(* PlayerPage::stop (lines 423-434), task t.                               *)

(* line 425: player.read().await is reached *)
StopBegin(t) ==
    /\ t \in Stops
    /\ MayStart(t)
    /\ plock' = Request(plock, t)
    /\ Goto(t, "w_player")
    /\ UNCHANGED <<loc, seen, before, steps, playerVars, mlock, sessionVars, inhibitVars,
                   is_seeking, icon, displayVars, video_container, has_root, hoverVars,
                   menuVars, watched>>

(* line 426: Player.stop is called *)
StopCall(t) ==
    /\ t \in Stops
    /\ pc[t] = "w_player"
    /\ Holds(plock, t)
    /\ Goto(t, "stop")
    /\ UNCHANGED <<loc, seen, before, steps, playerVars, plock, mlock, sessionVars, inhibitVars,
                   is_seeking, icon, displayVars, video_container, has_root, hoverVars,
                   menuVars, watched>>

(* lines 426-433: stop returns, Ok or Err, and uninhibit_suspend reaches   *)
(* inhibit_cookie.write().await.                                           *)
StopReturn(t) ==
    /\ t \in Stops
    /\ pc[t] = "stop"
    /\ \E ok \in BOOLEAN : PlayerStop(ok)
    /\ Goto(t, "uninhibit")
    /\ UNCHANGED <<loc, seen, before, steps, plock, mlock, sessionVars, inhibitVars, is_seeking,
                   icon, displayVars, video_container, has_root, hoverVars, menuVars,
                   watched>>

(* StopUninhibit that also removes the position timer from the main loop *)
StopUninhibitRemovingTimer(t) ==
    /\ t \in Stops
    /\ pc[t] = "uninhibit"
    /\ inhibit_cookie' = None
    /\ inhibited' = AfterUninhibit(inhibited)
    /\ plock' = Release(plock, t)
    /\ position_timers' = 0
    /\ Goto(t, "done")
    /\ UNCHANGED <<loc, seen, before, steps, playerVars, mlock, sessionVars, next_cookie,
                   is_seeking, icon, displayVars, video_container, has_root,
                   hover_added, controls_visible, hide_timer, timers, next_timer,
                   idle_time, menuVars, watched>>

(* uninhibit_suspend, lines 539-556; stop returns and its read guard is    *)
(* dropped.                                                                *)
StopUninhibit(t) ==
    /\ t \in Stops
    /\ pc[t] = "uninhibit"
    /\ inhibit_cookie' = None
    /\ inhibited' = AfterUninhibit(inhibited)
    /\ plock' = Release(plock, t)
    /\ Goto(t, "done")
    /\ UNCHANGED <<loc, seen, before, steps, playerVars, mlock, sessionVars, next_cookie,
                   is_seeking, icon, displayVars, video_container, has_root, hoverVars,
                   menuVars, watched>>

StopStep(t) ==
    \/ StopBegin(t)
    \/ StopCall(t)
    \/ StopReturn(t)
    \/ StopUninhibit(t)


----------------------------------------------------------------------------
(* The activate handler of a set-quality action (lines 1347-1376), task t. *)
(* loc[t] is the URL the action was built with, seen[t] the position read. *)

(* the user picks a quality option whose action is registered; line 1353:  *)
(* player.read().await is reached                                          *)
SwitchBegin(t) ==
    /\ t \in Switches
    /\ MayStart(t)
    /\ \E a \in action_group :
          /\ a.name = "set-quality"
          /\ loc' = [loc EXCEPT ![t] = a.url]
    /\ before' = [before EXCEPT ![t] = pstate]
    /\ plock' = Request(plock, t)
    /\ Goto(t, "w_player")
    /\ UNCHANGED <<seen, steps, playerVars, mlock, sessionVars, inhibitVars,
                   is_seeking, icon, displayVars, video_container, has_root, hoverVars,
                   menuVars, watched>>

(* line 1354: Player.get_position is called *)
SwitchPositionCall(t) ==
    /\ t \in Switches
    /\ pc[t] = "w_player"
    /\ Holds(plock, t)
    /\ Goto(t, "get_position")
    /\ UNCHANGED <<loc, seen, before, steps, playerVars, plock, mlock, sessionVars,
                   inhibitVars, is_seeking, icon, displayVars, video_container,
                   has_root, hoverVars, menuVars, watched>>

(* lines 1354-1358: get_position returns Some(position) or None, the first *)
(* read guard is dropped and player.read().await is reached again.         *)
SwitchPositionReturn(t) ==
    /\ t \in Switches
    /\ pc[t] = "get_position"
    /\ \E position \in {ppos, None} : seen' = [seen EXCEPT ![t] = position]
    /\ plock' = Request(Release(plock, t), t)
    /\ Goto(t, "w_player2")
    /\ UNCHANGED <<loc, before, steps, playerVars, mlock, sessionVars, inhibitVars,
                   is_seeking, icon, displayVars, video_container, has_root, hoverVars,
                   menuVars, watched>>

(* line 1359: Player.load_media(url) is called, under the read guard *)
SwitchLoadCall(t) ==
    /\ t \in Switches
    /\ pc[t] = "w_player2"
    /\ Holds(plock, t)
    /\ Goto(t, "load_media")
    /\ Log(t, <<"load_media">>)
    /\ UNCHANGED <<loc, seen, before, playerVars, plock, mlock, sessionVars,
                   inhibitVars, is_seeking, icon, displayVars, video_container,
                   has_root, hoverVars, menuVars, watched>>

(* SwitchLoadReturn without the `return` of line 1361: after a failed      *)
(* load_media the handler goes on to Player.play                           *)
SwitchLoadReturnResuming(t) ==
    /\ t \in Switches
    /\ pc[t] = "load_media"
    /\ \E ok \in BOOLEAN :
          /\ PlayerLoadMedia(loc[t], ok)
          /\ IF ok
             THEN /\ Goto(t, IF seen[t] # None THEN "seek" ELSE "play")
                  /\ Log(t, <<"load_media_ok",
                              IF seen[t] # None THEN "seek" ELSE "play">>)
             ELSE /\ Goto(t, "play")
                  /\ Log(t, <<"load_media_err", "play">>)
    /\ UNCHANGED <<loc, seen, before, plock, mlock, sessionVars, inhibitVars,
                   is_seeking, icon, displayVars, video_container, has_root, hoverVars,
                   menuVars, watched>>

(* lines 1359-1372: load_media returns; on Err the handler ends, on Ok     *)
(* Player.seek is called when a position was read, Player.play otherwise.  *)
SwitchLoadReturn(t) ==
    /\ t \in Switches
    /\ pc[t] = "load_media"
    /\ \E ok \in BOOLEAN :
          /\ PlayerLoadMedia(loc[t], ok)
          /\ IF ok
             THEN /\ Goto(t, IF seen[t] # None THEN "seek" ELSE "play")
                  /\ Log(t, <<"load_media_ok",
                              IF seen[t] # None THEN "seek" ELSE "play">>)
                  /\ UNCHANGED plock
             ELSE /\ plock' = Release(plock, t)
                  /\ Goto(t, "done")
                  /\ Log(t, <<"load_media_err">>)
    /\ UNCHANGED <<loc, seen, before, mlock, sessionVars, inhibitVars, is_seeking,
                   icon, displayVars, video_container, has_root, hoverVars, menuVars,
                   watched>>

(* lines 1366-1372: seek returns, Ok or Err, and Player.play is called *)
SwitchSeekReturn(t) ==
    /\ t \in Switches
    /\ pc[t] = "seek"
    /\ \E ok \in BOOLEAN :
          /\ PlayerSeek(seen[t], ok)
          /\ Log(t, <<IF ok THEN "seek_ok" ELSE "seek_err", "play">>)
    /\ Goto(t, "play")
    /\ UNCHANGED <<loc, seen, before, plock, mlock, sessionVars, inhibitVars,
                   is_seeking, icon, displayVars, video_container, has_root, hoverVars,
                   menuVars, watched>>

(* lines 1372-1375: play returns, Ok or Err; the handler ends *)
SwitchPlayReturn(t) ==
    /\ t \in Switches
    /\ pc[t] = "play"
    /\ \E ok \in BOOLEAN : PlayerPlay(ok)
    /\ plock' = Release(plock, t)
    /\ Goto(t, "done")
    /\ UNCHANGED <<loc, seen, before, steps, mlock, sessionVars, inhibitVars, is_seeking,
                   icon, displayVars, video_container, has_root, hoverVars, menuVars,
                   watched>>

SwitchStep(t) ==
    \/ SwitchBegin(t)
    \/ SwitchPositionCall(t)
    \/ SwitchPositionReturn(t)
    \/ SwitchLoadCall(t)
    \/ SwitchLoadReturn(t)
    \/ SwitchSeekReturn(t)
    \/ SwitchPlayReturn(t)


----------------------------------------------------------------------------
(* The position timer's tick (lines 1055-1104), task t: every 500 ms the   *)
(* timer starts a new task.  seen[t] is the is_seeking the tick read (1 or *)
(* 0), loc[t] the position.                                                *)

(* lines 1055-1067, 1103: the timer fires and stays (ControlFlow::Continue); *)
(* is_seeking is read and player.read().await is reached                   *)
TickBegin(t) ==
    /\ t \in Ticks
    /\ MayStart(t)
    /\ position_timers > 0
    /\ seen' = [seen EXCEPT ![t] = IF is_seeking THEN 1 ELSE 0]
    /\ plock' = Request(plock, t)
    /\ Goto(t, "w_player")
    /\ UNCHANGED <<loc, before, steps, playerVars, mlock, sessionVars, inhibitVars,
                   is_seeking, icon, displayVars, video_container, has_root, hoverVars,
                   menuVars, watched>>

(* line 1070: Player.get_position is called *)
TickPositionCall(t) ==
    /\ t \in Ticks
    /\ pc[t] = "w_player"
    /\ Holds(plock, t)
    /\ Goto(t, "get_position")
    /\ UNCHANGED <<loc, seen, before, steps, playerVars, plock, mlock, sessionVars,
                   inhibitVars, is_seeking, icon, displayVars, video_container,
                   has_root, hoverVars, menuVars, watched>>

(* line 1070: get_position returns and Player.get_duration is called *)
TickPositionReturn(t) ==
    /\ t \in Ticks
    /\ pc[t] = "get_position"
    /\ loc' = [loc EXCEPT ![t] = ppos]
    /\ Goto(t, "get_duration")
    /\ UNCHANGED <<seen, before, steps, playerVars, plock, mlock, sessionVars,
                   inhibitVars, is_seeking, icon, displayVars, video_container,
                   has_root, hoverVars, menuVars, watched>>

(* line 1074: (position / duration) * 100.0 in f64: a position over the    *)
(* duration 0 gives +infinity, 0 over 0 gives NaN                          *)
Infinity == 1000000
NaN == -2

ProgressValue(position, duration) ==
    IF duration = 0
    THEN IF position = 0 THEN NaN ELSE Infinity
    ELSE (position * 100) \div duration

(* a Scale that takes any value as it is given *)
ScaleValueUnclamped(value) == value

(* progress_bar is a Scale of range 0..100 (line 749): set_value brings    *)
(* the value into the range of its adjustment, min(value, upper) and then  *)
(* max(.., lower); the comparisons with NaN are false, which leaves upper  *)
ScaleValue(value) ==
    IF value = NaN THEN 100
    ELSE IF value > 100 THEN 100
    ELSE IF value < 0 THEN 0
    ELSE value

(* lines 1069-1100: get_duration returns; with a position and a duration   *)
(* the progress value is set unless the tick read is_seeking as true, and  *)
(* the time label is set.  The end label that follows is not modelled; the *)
(* read guard is dropped when the tick ends.                               *)
TickPublish(t) ==
    /\ t \in Ticks
    /\ pc[t] = "get_duration"
    /\ IF loc[t] # None /\ pdur # None
       THEN /\ progress' = IF seen[t] = 0
                        THEN ScaleValue(ProgressValue(loc[t], pdur))
                                          ELSE progress
            /\ time_label' = format_duration(loc[t])
       ELSE UNCHANGED <<progress, time_label>>
    /\ plock' = Release(plock, t)
    /\ Goto(t, "done")
    /\ UNCHANGED <<loc, seen, before, steps, playerVars, mlock, sessionVars, inhibitVars,
                   is_seeking, icon, video_container, has_root, hoverVars, menuVars,
                   watched>>

TickStep(t) ==
    \/ TickBegin(t)
    \/ TickPositionCall(t)
    \/ TickPositionReturn(t)
    \/ TickPublish(t)

----------------------------------------------------------------------------
(* The progress bar's change_value handler (lines 979-1008), task t: the   *)
(* user drags the slider to loc[t]; seen[t] is the position sought.        *)
DragValues == {0, 90, 100}

(* lines 980-983, 1007: the handler starts the task and lets the scale     *)
(* take the value (Propagation::Proceed)                                   *)
DragBegin(t) ==
    /\ t \in Drags
    /\ MayStart(t)
    /\ \E value \in DragValues :
          /\ loc' = [loc EXCEPT ![t] = value]
          /\ progress' = value
    /\ Goto(t, "spawned")
    /\ UNCHANGED <<seen, before, steps, playerVars, plock, mlock, sessionVars,
                   inhibitVars, is_seeking, icon, time_label, video_container,
                   has_root, hoverVars, menuVars, watched>>

(* lines 985-987: is_seeking becomes true; player.read().await is reached *)
DragMark(t) ==
    /\ t \in Drags
    /\ pc[t] = "spawned"
    /\ is_seeking' = TRUE
    /\ plock' = Request(plock, t)
    /\ Goto(t, "w_player")
    /\ UNCHANGED <<loc, seen, before, steps, playerVars, mlock, sessionVars, inhibitVars,
                   icon, displayVars, video_container, has_root, hoverVars, menuVars,
                   watched>>

(* line 988: Player.get_duration is called *)
DragDurationCall(t) ==
    /\ t \in Drags
    /\ pc[t] = "w_player"
    /\ Holds(plock, t)
    /\ Goto(t, "get_duration")
    /\ UNCHANGED <<loc, seen, before, steps, playerVars, plock, mlock, sessionVars,
                   inhibitVars, is_seeking, icon, displayVars, video_container,
                   has_root, hoverVars, menuVars, watched>>

(* line 990 *)
SeekPosition(value, duration) == (value * duration) \div 100

(* DragDurationReturn that starts the settle timer only after a seek: the  *)
(* task ends at once when there is no duration                             *)
DragDurationReturnSettlingAfterSeek(t) ==
    /\ t \in Drags
    /\ pc[t] = "get_duration"
    /\ IF pdur # None
       THEN /\ seen' = [seen EXCEPT ![t] = SeekPosition(loc[t], pdur)]
            /\ Goto(t, "seek")
            /\ UNCHANGED plock
       ELSE /\ plock' = Release(plock, t)
            /\ Goto(t, "done")
            /\ UNCHANGED seen
    /\ UNCHANGED <<loc, before, steps, playerVars, mlock, sessionVars, inhibitVars,
                   is_seeking, icon, displayVars, video_container, has_root, hoverVars,
                   menuVars, watched>>

(* lines 988-1004: get_duration returns; with a duration Player.seek is    *)
(* called, under the read guard; without one the settle timer is started   *)
(* and the task ends.                                                      *)
DragDurationReturn(t) ==
    /\ t \in Drags
    /\ pc[t] = "get_duration"
    /\ IF pdur # None
       THEN /\ seen' = [seen EXCEPT ![t] = SeekPosition(loc[t], pdur)]
            /\ Goto(t, "seek")
            /\ UNCHANGED plock
       ELSE /\ plock' = Release(plock, t)
            /\ Goto(t, "settle")
            /\ UNCHANGED seen
    /\ UNCHANGED <<loc, before, steps, playerVars, mlock, sessionVars, inhibitVars,
                   is_seeking, icon, displayVars, video_container, has_root, hoverVars,
                   menuVars, watched>>

(* lines 991-1005: seek returns, Ok or Err; the settle timer (100 ms) is   *)
(* started and the task ends.                                              *)
DragSeekReturn(t) ==
    /\ t \in Drags
    /\ pc[t] = "seek"
    /\ \E ok \in BOOLEAN : PlayerSeek(seen[t], ok)
    /\ plock' = Release(plock, t)
    /\ Goto(t, "settle")
    /\ UNCHANGED <<loc, seen, before, steps, mlock, sessionVars, inhibitVars, is_seeking,
                   icon, displayVars, video_container, has_root, hoverVars, menuVars,
                   watched>>

(* lines 998-1004: the settle timer fires and is_seeking becomes false *)
DragSettle(t) ==
    /\ t \in Drags
    /\ pc[t] = "settle"
    /\ is_seeking' = FALSE
    /\ Goto(t, "done")
    /\ UNCHANGED <<loc, seen, before, steps, playerVars, plock, mlock, sessionVars,
                   inhibitVars, icon, displayVars, video_container, has_root, hoverVars,
                   menuVars, watched>>

DragStep(t) ==
    \/ DragBegin(t)
    \/ DragMark(t)
    \/ DragDurationCall(t)
    \/ DragDurationReturn(t)
    \/ DragSeekReturn(t)
    \/ DragSettle(t)

----------------------------------------------------------------------------
(* monitor_playback_completion (lines 559-615), task t = <<"monitor", n>>, *)
(* started by the load n.  loc[t] is the id of the MediaItem read,         *)
(* seen[t] the position read.                                              *)

(* lines 566-573: the sleep ends and player.read().await is reached *)
MonitorPoll(t) ==
    /\ t \in Monitors
    /\ pc[t] = "sleep"
    /\ plock' = Request(plock, t)
    /\ Goto(t, "w_player")
    /\ UNCHANGED <<loc, seen, before, steps, playerVars, mlock, sessionVars, inhibitVars,
                   is_seeking, icon, displayVars, video_container, has_root, hoverVars,
                   menuVars, watched>>

(* line 574: Player.get_state is called *)
MonitorStateCall(t) ==
    /\ t \in Monitors
    /\ pc[t] = "w_player"
    /\ Holds(plock, t)
    /\ Goto(t, "get_state")
    /\ UNCHANGED <<loc, seen, before, steps, playerVars, plock, mlock, sessionVars,
                   inhibitVars, is_seeking, icon, displayVars, video_container,
                   has_root, hoverVars, menuVars, watched>>

(* MonitorStateReturn with Error handled like Playing: the monitor sleeps  *)
(* and polls again                                                         *)
MonitorStateReturnPollingOnError(t) ==
    /\ t \in Monitors
    /\ pc[t] = "get_state"
    /\ plock' = Release(plock, t)
    /\ IF pstate = "Stopped"
       THEN /\ mlock' = Request(mlock, t)
            /\ Goto(t, "w_item")
       ELSE /\ Goto(t, "sleep")
            /\ UNCHANGED mlock
    /\ UNCHANGED <<loc, seen, before, steps, playerVars, sessionVars, inhibitVars,
                   is_seeking, icon, displayVars, video_container, has_root, hoverVars,
                   menuVars, watched>>

(* MonitorStateReturn with Playing handled like Error: the loop ends *)
MonitorStateReturnEndingOnPlaying(t) ==
    /\ t \in Monitors
    /\ pc[t] = "get_state"
    /\ plock' = Release(plock, t)
    /\ IF pstate = "Stopped"
       THEN /\ mlock' = Request(mlock, t)
            /\ Goto(t, "w_item")
       ELSE /\ Goto(t, IF pstate \in {"Error", "Playing"} THEN "done" ELSE "sleep")
            /\ UNCHANGED mlock
    /\ UNCHANGED <<loc, seen, before, steps, playerVars, sessionVars, inhibitVars,
                   is_seeking, icon, displayVars, video_container, has_root, hoverVars,
                   menuVars, watched>>

(* lines 574-612: get_state returns and the guard is dropped; on Stopped   *)
(* current_media_item.read().await is reached, on Error the loop ends, on  *)
(* any other state the monitor sleeps again.                               *)
MonitorStateReturn(t) ==
    /\ t \in Monitors
    /\ pc[t] = "get_state"
    /\ plock' = Release(plock, t)
    /\ IF pstate = "Stopped"
       THEN /\ mlock' = Request(mlock, t)
            /\ Goto(t, "w_item")
       ELSE /\ Goto(t, IF pstate = "Error" THEN "done" ELSE "sleep")
            /\ UNCHANGED mlock
    /\ UNCHANGED <<loc, seen, before, steps, playerVars, sessionVars, inhibitVars,
                   is_seeking, icon, displayVars, video_container, has_root, hoverVars,
                   menuVars, watched>>

(* lines 580-582: with the read guard of current_media_item, the item      *)
(* stored now is the one the monitor uses; player.read().await is reached. *)
MonitorItem(t) ==
    /\ t \in Monitors
    /\ pc[t] = "w_item"
    /\ Holds(mlock, t)
    /\ IF current_media_item # None
       THEN /\ loc' = [loc EXCEPT ![t] = current_media_item]
            /\ plock' = Request(plock, t)
            /\ Goto(t, "w_player2")
            /\ UNCHANGED mlock
       ELSE /\ mlock' = Release(mlock, t)
            /\ Goto(t, "done")
            /\ UNCHANGED <<loc, plock>>
    /\ UNCHANGED <<seen, before, steps, playerVars, sessionVars, inhibitVars, is_seeking,
                   icon, displayVars, video_container, has_root, hoverVars, menuVars,
                   watched>>

(* line 583: Player.get_position is called *)
MonitorPositionCall(t) ==
    /\ t \in Monitors
    /\ pc[t] = "w_player2"
    /\ Holds(plock, t)
    /\ Goto(t, "get_position")
    /\ UNCHANGED <<loc, seen, before, steps, playerVars, plock, mlock, sessionVars,
                   inhibitVars, is_seeking, icon, displayVars, video_container,
                   has_root, hoverVars, menuVars, watched>>

(* lines 583-584: get_position returns and Player.get_duration is called *)
MonitorPositionReturn(t) ==
    /\ t \in Monitors
    /\ pc[t] = "get_position"
    /\ seen' = [seen EXCEPT ![t] = ppos]
    /\ Goto(t, "get_duration")
    /\ UNCHANGED <<loc, before, steps, playerVars, plock, mlock, sessionVars, inhibitVars,
                   is_seeking, icon, displayVars, video_container, has_root, hoverVars,
                   menuVars, watched>>

(* MonitorDurationReturn that keeps the guard of current_media_item when   *)
(* the threshold is not reached                                            *)
MonitorDurationReturnKeepingItemGuard(t) ==
    /\ t \in Monitors
    /\ pc[t] = "get_duration"
    /\ IF seen[t] # None /\ pdur # None /\ WatchedThreshold(seen[t], pdur)
       THEN /\ watched' = Append(watched, [item |-> loc[t], monitor |-> t[2]])
            /\ Goto(t, "mark_watched")
            /\ UNCHANGED <<plock, mlock>>
       ELSE /\ plock' = Release(plock, t)
            /\ Goto(t, "done")
            /\ UNCHANGED <<watched, mlock>>
    /\ UNCHANGED <<loc, seen, before, steps, playerVars, sessionVars, inhibitVars,
                   is_seeking, icon, displayVars, video_container, has_root, hoverVars,
                   menuVars>>

(* lines 584-603: get_duration returns; above the threshold                *)
(* Backend.mark_watched is called with the item's id, otherwise the loop   *)
(* ends and both guards are dropped.                                       *)
MonitorDurationReturn(t) ==
    /\ t \in Monitors
    /\ pc[t] = "get_duration"
    /\ IF seen[t] # None /\ pdur # None /\ WatchedThreshold(seen[t], pdur)
       THEN /\ watched' = Append(watched, [item |-> loc[t], monitor |-> t[2]])
            /\ Goto(t, "mark_watched")
            /\ UNCHANGED <<plock, mlock>>
       ELSE /\ plock' = Release(plock, t)
            /\ mlock' = Release(mlock, t)
            /\ Goto(t, "done")
            /\ UNCHANGED watched
    /\ UNCHANGED <<loc, seen, before, steps, playerVars, sessionVars, inhibitVars,
                   is_seeking, icon, displayVars, video_container, has_root, hoverVars,
                   menuVars>>

(* MonitorMarkReturn that polls again after an Err of mark_watched *)
MonitorMarkReturnRetrying(t) ==
    /\ t \in Monitors
    /\ pc[t] = "mark_watched"
    /\ plock' = Release(plock, t)
    /\ mlock' = Release(mlock, t)
    /\ \E ok \in BOOLEAN :
          /\ Log(t, IF ok THEN <<"mark_ok">> ELSE <<"mark_err">>)
          /\ Goto(t, IF ok THEN "done" ELSE "sleep")
    /\ UNCHANGED <<loc, seen, before, playerVars, sessionVars, inhibitVars,
                   is_seeking, icon, displayVars, video_container, has_root, hoverVars,
                   menuVars, watched>>

(* lines 597-603: mark_watched returns, Ok or Err (logged); the loop ends *)
MonitorMarkReturn(t) ==
    /\ t \in Monitors
    /\ pc[t] = "mark_watched"
    /\ plock' = Release(plock, t)
    /\ mlock' = Release(mlock, t)
    /\ Goto(t, "done")
    /\ \E ok \in BOOLEAN : Log(t, IF ok THEN <<"mark_ok">> ELSE <<"mark_err">>)
    /\ UNCHANGED <<loc, seen, before, playerVars, sessionVars, inhibitVars,
                   is_seeking, icon, displayVars, video_container, has_root, hoverVars,
                   menuVars, watched>>

MonitorStep(t) ==
    \/ MonitorPoll(t)
    \/ MonitorStateCall(t)
    \/ MonitorStateReturn(t)
    \/ MonitorItem(t)
    \/ MonitorPositionCall(t)
    \/ MonitorPositionReturn(t)
    \/ MonitorDurationReturn(t)
    \/ MonitorMarkReturn(t)


----------------------------------------------------------------------------
(* PlayerControls::populate_track_menus and setup_track_actions, task      *)
(* t = <<"populate", n>>, started by the load n 500 ms after play          *)
(* returned.  Every read of a track list takes the read guard for that one *)
(* statement.  A menu is the set of the actions its entries name;          *)
(* NoEntry is the entry without an action ("No audio tracks available",    *)
(* "No subtitles available").                                              *)
NoEntry == [name |-> "none", index |-> None, url |-> None]
AudioAction(i) == [name |-> "set-audio-track", index |-> i, url |-> None]
SubtitleAction(i) ==
    IF i < 0 THEN [name |-> "disable-subtitles", index |-> -1, url |-> None]
             ELSE [name |-> "set-subtitle-track", index |-> i, url |-> None]

(* AudioMenu without line 1157: the audio button stays enabled *)
AudioMenuAlwaysEnabled(audio_tracks) ==
    [entries |-> IF audio_tracks = {} THEN {NoEntry}
                 ELSE {AudioAction(i) : i \in audio_tracks},
     sensitive |-> TRUE]

(* lines 1142-1157 *)
AudioMenu(audio_tracks) ==
    [entries |-> IF audio_tracks = {} THEN {NoEntry}
                 ELSE {AudioAction(i) : i \in audio_tracks},
     sensitive |-> audio_tracks # {}]

(* line 1168: no subtitle track, or only the entry with index -1 *)
EmptyCatalog(subtitle_tracks) == subtitle_tracks = {} \/ subtitle_tracks = {-1}

(* SubtitleMenu without the second half of the test of line 1168: a list  *)
(* with only the index -1 is shown like any other                          *)
SubtitleMenuListingSentinel(subtitle_tracks) ==
    IF subtitle_tracks = {}
    THEN [entries |-> {NoEntry}, sensitive |-> FALSE]
    ELSE [entries |-> {SubtitleAction(i) : i \in subtitle_tracks},
          sensitive |-> TRUE]

(* lines 1169-1185 *)
SubtitleMenu(subtitle_tracks) ==
    IF EmptyCatalog(subtitle_tracks)
    THEN [entries |-> {NoEntry}, sensitive |-> FALSE]
    ELSE [entries |-> {SubtitleAction(i) : i \in subtitle_tracks},
          sensitive |-> TRUE]

(* lines 1200-1248 *)
TrackActions(audio_tracks, subtitle_tracks) ==
    {AudioAction(i) : i \in audio_tracks}
        \cup {SubtitleAction(i) : i \in subtitle_tracks}

(* lines 402-404, 1134: the delay is over, player.read().await is reached *)
PopulateBegin(t) ==
    /\ t \in Populates
    /\ pc[t] = "delay"
    /\ plock' = Request(plock, t)
    /\ Goto(t, "w_audio")
    /\ UNCHANGED <<loc, seen, before, steps, playerVars, mlock, sessionVars, inhibitVars,
                   is_seeking, icon, displayVars, video_container, has_root, hoverVars,
                   menuVars, watched>>

(* lines 1134-1161: the audio tracks are read, the audio menu and the      *)
(* audio button are set, player.read().await is reached again              *)
PopulateAudio(t) ==
    /\ t \in Populates
    /\ pc[t] = "w_audio"
    /\ Holds(plock, t)
    /\ UNCHANGED tracks
    /\ audio_menu' = AudioMenu(paudio)
    /\ Log(t, <<IF paudio = {} THEN "no_audio" ELSE "audio">>)
    /\ plock' = Request(Release(plock, t), t)
    /\ Goto(t, "w_subs")
    /\ UNCHANGED <<loc, seen, before, playerVars, mlock, sessionVars, inhibitVars,
                   is_seeking, icon, displayVars, video_container, has_root, hoverVars,
                   action_group, subtitle_menu, quality_menu, watched>>

(* lines 1161-1197: the subtitle tracks are read, the subtitle menu and    *)
(* button are set; setup_track_actions goes on only with a root            *)
PopulateSubtitles(t) ==
    /\ t \in Populates
    /\ pc[t] = "w_subs"
    /\ Holds(plock, t)
    /\ tracks' = [tracks EXCEPT ![t] = [audio |-> {}, subs |-> {}]]
    /\ subtitle_menu' = SubtitleMenu(psubs)
    /\ Log(t, <<IF EmptyCatalog(psubs) THEN "no_subs" ELSE "subs">>)
    /\ IF has_root
       THEN /\ plock' = Request(Release(plock, t), t)
            /\ Goto(t, "w_action_audio")
       ELSE /\ plock' = Release(plock, t)
            /\ Goto(t, "done")
    /\ UNCHANGED <<loc, seen, before, playerVars, mlock, sessionVars, inhibitVars,
                   is_seeking, icon, displayVars, video_container, has_root, hoverVars,
                   action_group, audio_menu, quality_menu, watched>>

(* lines 1200-1216: setup_track_actions reads the audio tracks again *)
PopulateActionAudio(t) ==
    /\ t \in Populates
    /\ pc[t] = "w_action_audio"
    /\ Holds(plock, t)
    /\ tracks' = [tracks EXCEPT ![t].audio = paudio]
    /\ plock' = Request(Release(plock, t), t)
    /\ Goto(t, "w_action_subs")
    /\ UNCHANGED <<loc, seen, before, steps, playerVars, mlock, sessionVars, inhibitVars,
                   is_seeking, icon, displayVars, video_container, has_root, hoverVars,
                   action_group, audio_menu, subtitle_menu, quality_menu,
                   watched>>

(* setup_track_actions calling add_action on the window's present group    *)
(* instead of inserting a new one                                          *)
PopulateActionSubtitlesAdding(t) ==
    /\ t \in Populates
    /\ pc[t] = "w_action_subs"
    /\ Holds(plock, t)
    /\ tracks' = [tracks EXCEPT ![t].subs = psubs]
    /\ action_group' = action_group \cup TrackActions(tracks[t].audio, psubs)
    /\ plock' = Release(plock, t)
    /\ Goto(t, "done")
    /\ UNCHANGED <<loc, seen, before, steps, playerVars, mlock, sessionVars, inhibitVars,
                   is_seeking, icon, displayVars, video_container, has_root, hoverVars,
                   audio_menu, subtitle_menu, quality_menu, watched>>

(* lines 1216-1250: it reads the subtitle tracks again and the new action  *)
(* group replaces the window's "player" group.  tracks[t] keeps the two    *)
(* lists this run registered actions for.                                  *)
PopulateActionSubtitles(t) ==
    /\ t \in Populates
    /\ pc[t] = "w_action_subs"
    /\ Holds(plock, t)
    /\ tracks' = [tracks EXCEPT ![t].subs = psubs]
    /\ action_group' = TrackActions(tracks[t].audio, psubs)
    /\ plock' = Release(plock, t)
    /\ Goto(t, "done")
    /\ UNCHANGED <<loc, seen, before, steps, playerVars, mlock, sessionVars, inhibitVars,
                   is_seeking, icon, displayVars, video_container, has_root, hoverVars,
                   audio_menu, subtitle_menu, quality_menu, watched>>

PopulateStep(t) ==
    \/ PopulateBegin(t)
    \/ PopulateAudio(t)
    \/ PopulateSubtitles(t)
    \/ PopulateActionAudio(t)
    \/ PopulateActionSubtitles(t)

----------------------------------------------------------------------------
(* The hide-controls timer of PlayerPage::new (lines 87-112).  Time is      *)
(* counted in seconds.  The motion handler and the timer callback have no   *)
(* await: each runs as one step of the main loop.                           *)
Cancel(pending, id) == [i \in DOMAIN pending \ {id} |-> pending[i]]

(* lines 385-388: one second after a load started playing the hover        *)
(* controller is added to the overlay; from then on motions are delivered  *)
HoverAdded ==
    /\ ~hover_added
    /\ \E t \in Loads : pc[t] = "ok"
    /\ hover_added' = TRUE
    /\ UNCHANGED <<pc, loc, seen, before, steps, playerVars, plock, mlock,
                   sessionVars, inhibitVars, is_seeking, icon, displayVars,
                   video_container, has_root, menuVars, watched, position_timers,
                   controls_visible, hide_timer, timers, next_timer, idle_time>>

(* the motion handler scheduling a new timer without removing the one      *)
(* stored                                                                  *)
PointerMotionNotCancelling ==
    /\ hover_added
    /\ next_timer <= MaxMotions
    /\ controls_visible' = TRUE
    /\ timers' = [i \in DOMAIN timers \cup {next_timer} |->
                     IF i = next_timer THEN HideDelay ELSE timers[i]]
    /\ hide_timer' = next_timer
    /\ next_timer' = next_timer + 1
    /\ idle_time' = 0
    /\ UNCHANGED <<pc, loc, seen, before, steps, playerVars, plock, mlock,
                   sessionVars, inhibitVars, is_seeking, icon, displayVars,
                   video_container, has_root, menuVars, watched, position_timers, hover_added>>

(* lines 93-112: the pointer moves over the overlay: the controls are      *)
(* shown, the stored timer is taken and removed, a new timer of 2 s is     *)
(* scheduled and its id stored                                             *)
PointerMotion ==
    /\ hover_added
    /\ next_timer <= MaxMotions
    /\ controls_visible' = TRUE
    /\ timers' = [i \in DOMAIN Cancel(timers, hide_timer) \cup {next_timer} |->
                     IF i = next_timer THEN HideDelay ELSE timers[i]]
    /\ hide_timer' = next_timer
    /\ next_timer' = next_timer + 1
    /\ idle_time' = 0
    /\ UNCHANGED <<pc, loc, seen, before, steps, playerVars, plock, mlock,
                   sessionVars, inhibitVars, is_seeking, icon, displayVars,
                   video_container, has_root, menuVars, watched, position_timers, hover_added>>

(* one second passes without pointer motion; a timer that is due may fire  *)
(* late                                                                    *)
TimePasses ==
    /\ hover_added
    /\ idle_time < HideDelay \/ \E i \in DOMAIN timers : timers[i] > 0
    /\ timers' = [i \in DOMAIN timers |->
                     IF timers[i] > 0 THEN timers[i] - 1 ELSE 0]
    /\ idle_time' = IF idle_time < HideDelay THEN idle_time + 1 ELSE HideDelay
    /\ UNCHANGED <<pc, loc, seen, before, steps, playerVars, plock, mlock,
                   sessionVars, inhibitVars, is_seeking, icon, displayVars,
                   video_container, has_root, menuVars, watched, position_timers, hover_added,
                   controls_visible, hide_timer, next_timer>>

(* lines 105-110: the timer id fires: the controls are hidden, the stored  *)
(* handle is taken, and ControlFlow::Break removes the source              *)
HideTimerFires(id) ==
    /\ id \in DOMAIN timers
    /\ timers[id] = 0
    /\ controls_visible' = FALSE
    /\ hide_timer' = None
    /\ timers' = Cancel(timers, id)
    /\ UNCHANGED <<pc, loc, seen, before, steps, playerVars, plock, mlock,
                   sessionVars, inhibitVars, is_seeking, icon, displayVars,
                   video_container, has_root, menuVars, watched, position_timers, hover_added,
                   next_timer, idle_time>>

----------------------------------------------------------------------------
(* Specifications.  Each one runs the operations a group of properties is  *)
(* about, from the state after PlayerPage::new.                            *)
FirstLoad == <<"load", 1>>
FirstStop == <<"stop", 1>>
FirstClick == <<"click", 1>>

(* the suspend inhibition: a load, stop(), play/pause clicks, the end of   *)
(* the stream                                                              *)
NextInhibit ==
    \/ LoadStep(FirstLoad)
    \/ \E t \in Clicks : ClickStep(t)
    \/ \E t \in Stops : StopStep(t)
    \/ PlayerEndOfStream
    \/ AttachToWindow

SpecInhibit == Init /\ [][NextInhibit]_vars

(* the handle of the suspend inhibition: one load, the presses of the      *)
(* play/pause button and one press of the stop button                      *)
NextRelease ==
    \/ LoadStep(FirstLoad)
    \/ \E t \in Clicks : ClickStep(t)
    \/ StopStep(FirstStop)
    \/ AttachToWindow

SpecRelease == Init /\ [][NextRelease]_vars

(* the position poller and the drag seeks of a loaded session *)
NextSeek ==
    \/ LoadStep(FirstLoad)
    \/ \E t \in Drags : DragStep(t)
    \/ \E t \in Ticks : TickStep(t)
    \/ PlayerProgress

SpecSeek == Init /\ [][NextSeek]_vars

(* loads, stop() and the completion monitors the loads start *)
NextMonitor ==
    \/ \E t \in Loads : LoadStep(t)
    \/ \E t \in Stops : StopStep(t)
    \/ \E t \in Monitors : MonitorStep(t)
    \/ PlayerEndOfStream
    \/ PlayerProgress
    \/ PlayerFault

SpecMonitor == Init /\ [][NextMonitor]_vars

(* a load, a play/pause click and a quality switch *)
NextSwitch ==
    \/ LoadStep(FirstLoad)
    \/ ClickStep(FirstClick)
    \/ \E t \in Switches : SwitchStep(t)
    \/ PlayerProgress

SpecSwitch == Init /\ [][NextSwitch]_vars

(* loads and the track population they start *)
NextLoad ==
    \/ \E t \in Loads : LoadStep(t)
    \/ \E t \in Populates : PopulateStep(t)
    \/ PlayerDiscoverTracks
    \/ AttachToWindow

SpecLoad == Init /\ [][NextLoad]_vars

(* the first MaxSessions loads, each with its track population *)
NextPopulate ==
    \/ \E t \in Loads : t[2] <= MaxSessions /\ LoadStep(t)
    \/ \E t \in Populates : PopulateStep(t)
    \/ PlayerDiscoverTracks
    \/ AttachToWindow

SpecPopulate == Init /\ [][NextPopulate]_vars

(* one session watched to its end: its loads, one press of the stop        *)
(* button, the monitors, and the Player ending or failing by itself        *)
NextWatch ==
    \/ \E t \in Loads : t[2] <= MaxSessions /\ LoadStep(t)
    \/ StopStep(FirstStop)
    \/ \E t \in Monitors : MonitorStep(t)
    \/ PlayerEndOfStream
    \/ PlayerFault

SpecWatch == Init /\ [][NextWatch]_vars

(* the position poller of a loaded session whose Player reports any        *)
(* position and duration                                                   *)
NextProgress ==
    \/ LoadStep(FirstLoad)
    \/ \E t \in Ticks : TickStep(t)
    \/ PlayerReports

SpecProgress == Init /\ [][NextProgress]_vars

(* the pointer over the overlay of a page on which media is loaded *)
SecondLoad == <<"load", 2>>

NextHover ==
    \/ LoadStep(FirstLoad)
    \/ Ended(FirstLoad) /\ LoadStep(SecondLoad)
    \/ HoverAdded
    \/ PointerMotion
    \/ TimePasses
    \/ \E id \in 1..MaxMotions : HideTimerFires(id)

SpecHover == Init /\ [][NextHover]_vars

(* two sessions one after the other: the second load starts when the first *)
(* has returned and the track population it started, if any, has finished  *)
SessionOver(n) ==
    Ended(<<"load", n>>) /\ pc[<<"populate", n>>] \in {"idle", "done"}

NextSessions ==
    \/ LoadStep(FirstLoad)
    \/ SessionOver(1) /\ LoadStep(SecondLoad)
    \/ \E t \in Populates : PopulateStep(t)
    \/ PlayerDiscoverTracks
    \/ AttachToWindow

SpecSessions == Init /\ [][NextSessions]_vars

(* two loads one after the other with their track populations still       *)
(* pending, the populations run in the order in which they were scheduled, *)
(* and a quality switch after the loads                                    *)
FirstSwitch == <<"switch", 1>>
PopulateInTurn(t) == t[2] > 1 => pc[Prev1(t)] \in {"idle", "done"}

NextTracks ==
    \/ LoadStep(FirstLoad)
    \/ Ended(FirstLoad) /\ LoadStep(SecondLoad)
    \/ \E t \in Populates : PopulateInTurn(t) /\ PopulateStep(t)
    \/ Ended(SecondLoad) /\ SwitchStep(FirstSwitch)
    \/ PlayerDiscoverTracks

SpecTracks == Init /\ [][NextTracks]_vars

----------------------------------------------------------------------------
(* Properties.                                                             *)

(* C1: at most one cookie has been returned by app.inhibit and not yet     *)
(* passed to app.uninhibit, in every reachable state.                      *)
C1_AtMostOneInhibition == Cardinality(inhibited) <= 1

(* No load, stop, click or quality switch is under way. *)
Quiescent ==
    \A t \in Loads \cup Clicks \cup Stops \cup Switches : pc[t] = "idle" \/ Ended(t)

(* C2: whenever no controller action is in flight (and the page is in its  *)
(* window), a cookie is stored if and only if the Player is Playing.       *)
C2_InhibitedIffPlaying ==
    (Quiescent /\ has_root) => (inhibit_cookie # None <=> pstate = "Playing")

(* C3: a poller tick that publishes while is_seeking is true leaves the    *)
(* progress value unchanged.                                               *)
C3_NoProgressWriteWhileSeeking ==
    [][\A t \in Ticks :
          (is_seeking /\ pc[t] = "get_duration" /\ pc'[t] = "done")
              => progress' = progress]_vars

(* the calls of mark_watched made for the item n *)
MarkedFor(n) == {k \in 1..Len(watched) : watched[k].item = n}

(* C4: mark_watched is called at most once for each loaded item, counting  *)
(* the calls of all completion monitors.                                   *)
C4_MarkedAtMostOnce ==
    \A n \in 1..MaxLoads : Cardinality(MarkedFor(n)) <= 1

(* C5: mark_watched is called for an item if and only if the Player was    *)
(* Stopped with position / duration > 0.9 while that item was the current  *)
(* one: no call without it, and a call once every monitor has ended.       *)
C5_MarkedIffFinished ==
    /\ \A k \in 1..Len(watched) : watched[k].item \in reached
    /\ (\A t \in Monitors : pc[t] = "done") =>
           \A n \in reached : MarkedFor(n) # {}

(* C6: a load that failed with BackendUnavailable or                       *)
(* StreamResolutionFailed has left the session as it was: its item and its *)
(* stream info are not the current ones.                                   *)
C6_FailedLoadLeavesSession ==
    \A t \in Loads :
        pc[t] \in {"err_backend", "err_stream"} =>
            /\ current_media_item # t[2]
            /\ current_stream_info.url # StreamInfo(t[2], 0).url

(* C7: when a quality switch of a session that was Playing or Paused ends, *)
(* the Player is Playing only if it was Playing when the switch started; a *)
(* paused session stays paused.                                            *)
C7_SwitchKeepsPlayPauseIntent ==
    [][\A t \in Switches :
          (pc[t] = "play" /\ pc'[t] = "done" /\ before[t] \in {"Playing", "Paused"})
              => (pstate' = "Playing" => before[t] = "Playing")]_vars

(* a call that changes the Player is in flight in task t *)
MutatingCall(t) == pc[t] \in {"load_media", "play", "pause", "stop", "seek"}
(* a call that reads the Player's position or duration is in flight *)
ReadingCall(t) == pc[t] \in {"get_position", "get_duration"}

(* C8: every call that changes the Player is made by a task that holds the *)
(* write guard of the Player lock.                                         *)
C8_MutationsHoldWriteGuard ==
    \A t \in Tasks : MutatingCall(t) => plock.writer = t

(* C9: no poller tick reads position or duration while a seek of a drag is *)
(* in flight.                                                              *)
C9_NoTickReadDuringSeek ==
    \A t \in Ticks, d \in Drags : ~(ReadingCall(t) /\ pc[d] = "seek")


(* the set-quality actions of the load t are registered *)
QualityRegistered(t) ==
    \E a \in action_group :
        a.name = "set-quality" /\ a.url \in {QualityUrl(StreamInfo(t[2], q), k) :
                                               q \in 0..MaxQuality, k \in 1..MaxQuality}
TrackActionNames == {"set-audio-track", "set-subtitle-track", "disable-subtitles"}
TrackRegistered == \E a \in action_group : a.name \in TrackActionNames
(* Player.load_media has returned Ok in the load t and Player.play has    *)
(* not yet returned: the Player is not yet Playing for that load          *)
BeforePlaying(t) == pc[t] = "play"
PopulateOf(t) == <<"populate", t[2]>>

(* C10 as stated: while a load has not yet seen Player.play succeed, none  *)
(* of its quality actions and no track action of its population is         *)
(* registered, the catalogs are empty and the selectors disabled.          *)
C10_NoActionBeforePlaying ==
    \A t \in Loads :
        BeforePlaying(t) =>
            /\ ~QualityRegistered(t)
            /\ ~Started(PopulateOf(t))
            /\ (\A u \in Loads : ~Started(PopulateOf(u))) =>
                   /\ audio_menu.entries = {} /\ ~audio_menu.sensitive
                   /\ subtitle_menu.entries = {} /\ ~subtitle_menu.sensitive

(* C10 amended: the track population of a load is started, and so          *)
(* registers audio and subtitle actions, only after Player.play returned   *)
(* Ok in that load; track actions are registered only by a population      *)
(* that has read the track lists.                                          *)
C10_TrackActionsAfterPlay ==
    /\ \A t \in Loads : Started(PopulateOf(t)) => pc[t] = "ok"
    /\ TrackRegistered => \E t \in Loads : pc[PopulateOf(t)] = "done"

(* a population has registered track actions *)
C10_TrackActionsRegistered ==
    \E t \in Loads : pc[PopulateOf(t)] = "done" /\ pc[t] = "ok" /\ TrackRegistered

(* the actions the entries of the two track menus name *)
ShownTrackActions ==
    (audio_menu.entries \cup subtitle_menu.entries) \ {NoEntry}
(* the track actions registered in the window's "player" group *)
RegisteredTrackActions == {a \in action_group : a.name \in TrackActionNames}

(* C11: when populate_track_menus completes, having set up its actions,    *)
(* the registered track actions are exactly the actions the entries of the *)
(* audio and subtitle menus name.                                          *)
C11_EntriesMatchActions ==
    [][\A t \in Populates :
          (pc[t] = "w_action_subs" /\ pc'[t] = "done")
              => RegisteredTrackActions' = ShownTrackActions']_vars

(* C12: while a drag seek is between setting is_seeking and the end of its *)
(* settle delay, is_seeking is true.                                       *)
C12_SeekingUntilSettled ==
    \A d \in Drags :
        pc[d] \in {"w_player", "get_duration", "seek", "settle"} => is_seeking

(* the steps of a successful load, in the order of lines 328-409 *)
LoadOrder ==
    <<"resolve", "clear", "attach", "load_media", "metadata", "play",
      "inhibit", "populate", "monitor">>
IsPrefix(a, b) == Len(a) <= Len(b) /\ a = SubSeq(b, 1, Len(a))

(* C13: the steps a load has begun so far are an initial part of: resolve  *)
(* stream, clear target, attach target, Player.load_media, set metadata,   *)
(* Player.play, acquire inhibition, schedule population, start monitor;    *)
(* a load that returned Ok has made all of them.                           *)
C13_LoadStepsInOrder ==
    \A t \in Loads :
        /\ IsPrefix(steps[t], LoadOrder)
        /\ pc[t] = "ok" => steps[t] = LoadOrder

(* a load has returned Ok *)
C13_LoadSucceeded ==
    \E t \in Loads : pc[t] = "ok" /\ steps[t] = LoadOrder /\ video_container = t[2]

(* the load t returned Err for a missing backend or a failed               *)
(* get_stream_url                                                          *)
FailedBeforePlayer(t) == pc[t] \in {"err_backend", "err_stream"}

(* C14: a load that failed for a missing backend or in get_stream_url has  *)
(* made no step after the resolving of the stream (no clearing or          *)
(* replacing of the video widget, no Player call, no inhibition) and has   *)
(* started neither its population task nor its monitor.                    *)
C14_FailedLoadIssuesNothing ==
    \A t \in Loads :
        FailedBeforePlayer(t) =>
            /\ steps[t] \in {<<>>, <<"resolve">>}
            /\ video_container # t[2]
            /\ pc[<<"populate", t[2]>>] = "idle"
            /\ pc[<<"monitor", t[2]>>] = "idle"
            /\ purl # StreamInfo(t[2], 0).url

(* a load has failed in get_stream_url *)
C14_StreamResolutionFailed ==
    \E t \in Loads : pc[t] = "err_stream" /\ steps[t] = <<"resolve">>

(* C15: the current MediaItem is present only if some load has returned    *)
(* Ok, and a stored MediaItem and a stored StreamInfo are those of the     *)
(* same load.                                                              *)
C15_ItemAndStreamOfOneLoad ==
    /\ current_media_item # None => \E t \in Loads : pc[t] = "ok"
    /\ (current_media_item # None /\ current_stream_info # NoStream) =>
           \E q \in 0..MaxQuality :
               current_stream_info = StreamInfo(current_media_item, q)

(* the Player call of the click t has returned Err *)
ClickFailed(t) ==
    steps[t] # <<>> /\ steps[t][Len(steps[t])] \in {"play_err", "pause_err"}

(* C16: a click whose Player.play or Player.pause returned Err changes     *)
(* neither the play/pause icon nor the inhibition: not in the step that    *)
(* receives the Err and not in the steps the handler makes after it.       *)
C16_FailedClickChangesNothing ==
    [][\A t \in Clicks :
          /\ (pc[t] \in {"play", "pause"} /\ pc'[t] # pc[t] /\ ClickFailed(t)')
                 => icon' = icon
          /\ (ClickFailed(t) /\ pc'[t] # pc[t])
                 => (inhibit_cookie' = inhibit_cookie /\ inhibited' = inhibited)]_vars

(* C17: no load returns an Err that comes from a Player call; load returns *)
(* Err only for a missing backend or a failed get_stream_url.              *)
C17_LoadErrOnlyBeforePlayer ==
    \A t \in Loads : pc[t] # "err_player"

(* the call or result e is among the steps s of a task *)
Has(s, e) == \E i \in 1..Len(s) : s[i] = e

(* C18: in a quality switch a failed Player.load_media is the last thing   *)
(* the handler does: no seek and no play follow. After a load_media that   *)
(* succeeded Player.play is called: at once when no position was read,     *)
(* and after the seek, whether it returned Ok or Err, otherwise.           *)
C18_SwitchResumesUnlessLoadFails ==
    \A t \in Switches :
        /\ Has(steps[t], "load_media_err") =>
               /\ steps[t] = <<"load_media", "load_media_err">>
               /\ pc[t] = "done"
        /\ (Has(steps[t], "load_media_ok") /\ seen[t] = None) =>
               /\ Has(steps[t], "play")
               /\ ~Has(steps[t], "seek")
        /\ (Has(steps[t], "load_media_ok") /\ seen[t] # None) =>
               /\ Has(steps[t], "seek")
               /\ pc[t] = "seek" \/ Has(steps[t], "play")
        /\ (Has(steps[t], "seek_err") \/ Has(steps[t], "seek_ok")) =>
               Has(steps[t], "play")

(* a switch has ended whose seek failed and whose play was called *)
C18_ResumedAfterFailedSeek ==
    \E t \in Switches :
        /\ pc[t] = "done"
        /\ steps[t] = <<"load_media", "load_media_ok", "seek", "seek_err", "play">>

(* the step in which the monitor t receives the state s from get_state *)
Observes(t, s) == pc[t] = "get_state" /\ pc'[t] # "get_state" /\ pstate = s

(* the calls to Backend.mark_watched made by the monitor t *)
MarksBy(t) == {i \in DOMAIN watched : watched[i].monitor = t[2]}

(* C19: a monitor ends its loop only after it has observed Stopped or      *)
(* Error.  On Error it ends at once, reading neither position nor duration *)
(* and not calling mark_watched; on Stopped it goes on to the watched      *)
(* check and never polls again; on any other state it sleeps and polls     *)
(* again, and mark_watched is called only on the path that starts at       *)
(* Stopped.                                                                *)
C19_MonitorEndsOnStoppedOrError ==
    [][\A t \in Monitors :
          /\ Observes(t, "Error") => (pc'[t] = "done" /\ watched' = watched)
          /\ Observes(t, "Stopped") => pc'[t] = "w_item"
          /\ \A s \in {"Idle", "Loading", "Playing", "Paused"} :
                Observes(t, s) => (pc'[t] = "sleep" /\ watched' = watched)
          /\ (pc'[t] = "done" /\ pc[t] # "done") =>
                \/ Observes(t, "Error")
                \/ pc[t] \in {"w_item", "get_duration", "mark_watched"}
          /\ (pc'[t] = "w_item" /\ pc[t] # "w_item") => Observes(t, "Stopped")
          /\ (pc'[t] \in {"w_player2", "get_position", "get_duration",
                          "mark_watched"} /\ pc[t] # pc'[t]) =>
                pc[t] \in {"w_item", "w_player2", "get_position", "get_duration"}
          /\ (pc'[t] = "sleep" /\ pc[t] \notin {"sleep", "idle"}) =>
                pc[t] = "get_state"
          /\ MarksBy(t)' # MarksBy(t) => pc[t] = "get_duration"]_vars

(* a monitor has ended on Error: it has read no item and marked nothing *)
C19_EndedOnError ==
    \E t \in Monitors :
        /\ pc[t] = "done"
        /\ pstate = "Error"
        /\ loc[t] = None
        /\ MarksBy(t) = {}

(* C20: the step in which mark_watched returns Err ends the monitor and    *)
(* changes neither the Player nor the session state (MediaItem,            *)
(* StreamInfo, inhibition handle, is_seeking); from then on the monitor    *)
(* stays ended and has called mark_watched exactly once.                   *)
C20_FailedMarkEndsMonitor ==
    [][\A t \in Monitors :
          /\ (pc[t] = "mark_watched" /\ Has(steps'[t], "mark_err")) =>
                /\ pc'[t] = "done"
                /\ UNCHANGED <<playerVars, sessionVars, inhibitVars, is_seeking,
                               watched>>
          /\ Has(steps[t], "mark_err") =>
                /\ pc[t] = "done" /\ pc'[t] = "done"
                /\ Cardinality(MarksBy(t)') = 1]_vars

(* a monitor has ended after mark_watched returned Err *)
C20_MarkFailed ==
    \E t \in Monitors :
        /\ pc[t] = "done"
        /\ steps[t] = <<"mark_err">>
        /\ Cardinality(MarksBy(t)) = 1

(* no load, click, stop or quality switch other than t is under way *)
AloneInFlight(t) ==
    \A u \in (Loads \cup Clicks \cup Stops \cup Switches) \ {t} :
        pc[u] = "idle" \/ Ended(u)

(* C21: no step of stop() changes the current MediaItem or StreamInfo, and *)
(* in the step in which stop() returns, after Player.stop returned Ok or   *)
(* Err, no cookie is stored and, when no other action is under way, no     *)
(* cookie returned by app.inhibit is left without its app.uninhibit.       *)
C21_StopLeavesNoInhibition ==
    [][\A t \in Stops :
          /\ (pc[t] # "idle" /\ pc'[t] # pc[t]) => sessionVars' = sessionVars
          /\ (pc[t] = "uninhibit" /\ pc'[t] = "done") =>
                /\ inhibit_cookie' = None
                /\ AloneInFlight(t) => inhibited' = {}]_vars

(* the menu and the selector state of a catalog without entries *)
Placeholder == [entries |-> {NoEntry}, sensitive |-> FALSE]

(* C22: a population never fails, whatever the Player reports.  The step   *)
(* that reads no audio tracks leaves the audio menu with the placeholder   *)
(* and the selector disabled, the step that reads no subtitle tracks (or   *)
(* only the index -1) does so for the subtitle menu; a step that reads     *)
(* tracks leaves one entry per track and the selector enabled.             *)
C22_EmptyCatalogThenFull ==
    [][\A t \in Populates :
          /\ (pc[t] = "w_audio" /\ pc'[t] # pc[t]) =>
                /\ pc'[t] = "w_subs"
                /\ IF paudio = {}
                   THEN audio_menu' = Placeholder
                   ELSE /\ audio_menu'.sensitive
                        /\ audio_menu'.entries = {AudioAction(i) : i \in paudio}
          /\ (pc[t] = "w_subs" /\ pc'[t] # pc[t]) =>
                /\ pc'[t] \in {"w_action_audio", "done"}
                /\ IF EmptyCatalog(psubs)
                   THEN subtitle_menu' = Placeholder
                   ELSE /\ subtitle_menu'.sensitive
                        /\ subtitle_menu'.entries =
                               {SubtitleAction(i) : i \in psubs}
          /\ (pc[t] \in {"w_action_audio", "w_action_subs"} /\ pc'[t] # pc[t]) =>
                pc'[t] \in {"w_action_subs", "done"}]_vars

(* the population of the first session ran before the Player reported      *)
(* tracks, the population of the second ran after: the selectors are       *)
(* enabled and list the tracks                                             *)
C22_PopulatedAgain ==
    /\ steps[<<"populate", 1>>] = <<"no_audio", "no_subs">>
    /\ steps[<<"populate", 2>>] = <<"audio", "subs">>
    /\ pc[<<"populate", 2>>] = "done"
    /\ audio_menu.sensitive /\ NoEntry \notin audio_menu.entries
    /\ subtitle_menu.sensitive /\ NoEntry \notin subtitle_menu.entries

(* C23: the step that registers the track actions leaves registered        *)
(* exactly the actions of the two lists it read, none of an earlier        *)
(* registration besides; and a step of a population that finds its menu    *)
(* or the actions as a population against the same lists leaves them,      *)
(* leaves them as they are.                                                *)
C23_RegistrationReplaces ==
    [][\A t \in Populates :
          /\ (pc[t] = "w_action_subs" /\ pc'[t] = "done") =>
                RegisteredTrackActions' =
                    TrackActions(tracks'[t].audio, tracks'[t].subs)
          /\ (pc[t] = "w_audio" /\ pc'[t] # pc[t]
                  /\ audio_menu = AudioMenu(paudio)) => audio_menu' = audio_menu
          /\ (pc[t] = "w_subs" /\ pc'[t] # pc[t]
                  /\ subtitle_menu = SubtitleMenu(psubs))
                 => subtitle_menu' = subtitle_menu]_vars

(* two populations have registered actions for the same, non-empty lists;  *)
(* menus, selectors and actions are those of one population                *)
C23_PopulatedTwice ==
    /\ pc[<<"populate", 1>>] = "done" /\ pc[<<"populate", 2>>] = "done"
    /\ has_root
    /\ tracks[<<"populate", 1>>] = tracks[<<"populate", 2>>]
    /\ tracks[<<"populate", 2>>].audio # {}
    /\ steps[<<"populate", 1>>] = <<"audio", "subs">>
    /\ steps[<<"populate", 2>>] = <<"audio", "subs">>
    /\ audio_menu = AudioMenu(tracks[<<"populate", 2>>].audio)
    /\ subtitle_menu = SubtitleMenu(tracks[<<"populate", 2>>].subs)
    /\ action_group = TrackActions(tracks[<<"populate", 2>>].audio,
                                   tracks[<<"populate", 2>>].subs)

(* the action an entry of the subtitle menu names, for the track index i *)
DisableSubtitles == [name |-> "disable-subtitles", index |-> -1, url |-> None]
SetSubtitleTrack(i) == [name |-> "set-subtitle-track", index |-> i, url |-> None]

(* C24: the step that sets the subtitle menu leaves the placeholder and    *)
(* the selector disabled exactly when the list read is empty or is the     *)
(* index -1 alone; otherwise the selector is enabled and the entries are   *)
(* disable-subtitles (index -1) for every negative index and               *)
(* set-subtitle-track-i for every other index i.  The step that sets the   *)
(* audio menu leaves the placeholder and the selector disabled exactly     *)
(* when the list read is empty.                                            *)
C24_SelectorsFollowLists ==
    [][\A t \in Populates :
          /\ (pc[t] = "w_subs" /\ pc'[t] # pc[t]) =>
                /\ (psubs = {} \/ psubs = {-1}) <=> ~subtitle_menu'.sensitive
                /\ (psubs = {} \/ psubs = {-1}) <=> subtitle_menu'.entries = {NoEntry}
                /\ subtitle_menu'.sensitive =>
                      subtitle_menu'.entries =
                          {DisableSubtitles : i \in {j \in psubs : j < 0}}
                              \cup {SetSubtitleTrack(i) : i \in {j \in psubs : j >= 0}}
          /\ (pc[t] = "w_audio" /\ pc'[t] # pc[t]) =>
                /\ paudio = {} <=> ~audio_menu'.sensitive
                /\ paudio = {} <=> audio_menu'.entries = {NoEntry}]_vars

(* a population has read audio tracks and the subtitle list with the       *)
(* index -1 alone: audio selector enabled, subtitle selector disabled      *)
C24_SentinelOnly ==
    \E t \in Populates :
        /\ pc[t] = "done"
        /\ steps[t] = <<"audio", "no_subs">>
        /\ psubs = {-1}
        /\ subtitle_menu = Placeholder
        /\ audio_menu.sensitive

(* the cookies passed to app.uninhibit in a step *)
Released == inhibited \ inhibited'

(* the step is the release made by stop() or by a click that pauses *)
ReleaseStep ==
    \E t \in Stops \cup Clicks : pc[t] = "uninhibit" /\ pc'[t] = "done"

(* C25: a release that finds no stored cookie changes neither the stored   *)
(* cookie nor the inhibitions.  The stored cookie is one app.inhibit       *)
(* returned and app.uninhibit has not yet been given; a step gives         *)
(* app.uninhibit no cookie but the stored one and leaves it stored no      *)
(* longer; app.inhibit never returns a cookie again.  So no cookie is      *)
(* released twice.                                                         *)
C25_ReleasedAtMostOnce ==
    [][/\ (ReleaseStep /\ inhibit_cookie = None) => UNCHANGED inhibitVars
       /\ ReleaseStep => inhibit_cookie' = None
       /\ inhibit_cookie # None => inhibit_cookie \in inhibited
       /\ Released \subseteq {inhibit_cookie}
       /\ inhibit_cookie' \notin Released
       /\ \A c \in inhibited' \ inhibited : c = next_cookie /\ next_cookie' > c
       /\ \A c \in inhibited : c < next_cookie]_vars

(* two cookies have been returned by app.inhibit and both have been        *)
(* released; nothing is stored and stop() has returned                     *)
C25_AcquiredAndReleased ==
    /\ next_cookie = 3
    /\ inhibited = {}
    /\ inhibit_cookie = None
    /\ \E t \in Stops : pc[t] = "done"
    /\ \E t \in Clicks : pc[t] = "done"

(* the step is the callback of a hide timer *)
TimerFired == next_timer' = next_timer /\ DOMAIN timers' # DOMAIN timers

(* C26: at most one hide timer is scheduled at any time; the stored handle *)
(* is that of a scheduled timer, so the remove() of a motion never gets a  *)
(* timer that has fired; a timer that fires is the one whose handle is     *)
(* stored, and leaves none stored; and the controls go from shown to       *)
(* hidden only when 2 s have passed since the last pointer motion.         *)
C26_OneHideTimer ==
    [][/\ Cardinality(DOMAIN timers) <= 1
       /\ Cardinality(DOMAIN timers') <= 1
       /\ hide_timer # None => hide_timer \in DOMAIN timers
       /\ TimerFired =>
             /\ DOMAIN timers \ DOMAIN timers' = {hide_timer}
             /\ hide_timer' = None
       /\ (controls_visible /\ ~controls_visible') => idle_time >= HideDelay]_vars

(* after two motions, the second having cancelled the timer of the first,  *)
(* the timer of the second has fired and hidden the controls               *)
C26_HiddenAfterMotions ==
    /\ next_timer = 3
    /\ timers = <<>>
    /\ hide_timer = None
    /\ ~controls_visible
    /\ idle_time = HideDelay

C28_LabelOnEveryTick ==
    [][\A t \in Ticks :
          (pc[t] = "get_duration" /\ pc'[t] = "done") =>
              /\ loc[t] # None => time_label' = format_duration(loc[t])
              /\ seen[t] = 1 => progress' = progress]_vars

(* The number a run of decimal digits writes, and the fields of a text    *)
(* that its colons separate.                                               *)
RECURSIVE NumberOf(_)
NumberOf(field) ==
    IF field = <<>> THEN 0
    ELSE NumberOf(SubSeq(field, 1, Len(field) - 1)) * 10
             + (CHOOSE n \in 0..9 : Digit(n) = field[Len(field)])

Colons(text) == {i \in 1..Len(text) : text[i] = ":"}

(* C29: the text a tick publishes for a position d below one hour is       *)
(* M:SS (one colon, two digits of seconds below 60 after it, minutes       *)
(* before it, together d seconds); for d of one hour or more it is         *)
(* H:MM:SS (two colons, two digits of minutes and of seconds, both below   *)
(* 60, together with the hours d seconds).  65 s is published as 1:05,     *)
(* 3665 s as 1:01:05, 0 s as 0:00 and 3600 s as 1:00:00.                   *)
C29_FormatDuration ==
    [][\A t \in Ticks :
          (pc[t] = "get_duration" /\ pc'[t] = "done"
               /\ loc[t] # None /\ pdur # None) =>
              LET d == loc[t]
                  text == time_label'
                  last == Len(text)
              IN  /\ d < 3600 =>
                        /\ Colons(text) = {last - 2}
                        /\ last >= 4
                        /\ NumberOf(SubSeq(text, last - 1, last)) < 60
                        /\ NumberOf(SubSeq(text, 1, last - 3)) * 60
                               + NumberOf(SubSeq(text, last - 1, last)) = d
                  /\ d >= 3600 =>
                        /\ Colons(text) = {last - 5, last - 2}
                        /\ last >= 7
                        /\ NumberOf(SubSeq(text, last - 4, last - 3)) < 60
                        /\ NumberOf(SubSeq(text, last - 1, last)) < 60
                        /\ NumberOf(SubSeq(text, 1, last - 6)) * 3600
                               + NumberOf(SubSeq(text, last - 4, last - 3)) * 60
                               + NumberOf(SubSeq(text, last - 1, last)) = d
                  /\ d = 65 => text = <<"1", ":", "0", "5">>
                  /\ d = 3665 => text = <<"1", ":", "0", "1", ":", "0", "5">>
                  /\ d = 0 => text = <<"0", ":", "0", "0">>
                  /\ d = 3600 => text = <<"1", ":", "0", "0", ":", "0", "0">>]_vars

(* a tick has published the position 3665 s, as 1:01:05 *)
C29_HourPublished ==
    \E t \in Ticks :
        /\ pc[t] = "done"
        /\ loc[t] = 3665
        /\ time_label = <<"1", ":", "0", "1", ":", "0", "5">>

(* C30: registering the actions of one kind removes no action of the       *)
(* other kind that an entry still shown needs.  The step in which a track  *)
(* population registers its actions keeps the set-quality action of every  *)
(* option of the quality menu, and the step in which a load populates the  *)
(* quality menu keeps the action of every track entry of the two menus.    *)
C30_RegisteringKeepsOtherKind ==
    [][/\ \A t \in Populates :
             (pc[t] = "w_action_subs" /\ pc'[t] = "done") =>
                 \A a \in action_group :
                     (a.name = "set-quality" /\ a.index \in quality_menu')
                         => a \in action_group'
       /\ \A t \in Loads :
             (pc[t] = "load_media" /\ pc'[t] = "play") =>
                 \A a \in RegisteredTrackActions :
                     a \in ShownTrackActions' => a \in action_group']_vars

(* C31: every call of Backend.mark_watched passes the id of the MediaItem  *)
(* of the load that started the calling monitor (the monitor n is started  *)
(* by the load of the item n).                                             *)
C31_MarksItemOfOwnLoad ==
    \A k \in DOMAIN watched : watched[k].item = watched[k].monitor

(* C32: at most one completion monitor is alive: once a later load has     *)
(* started its monitor, no monitor of an earlier load is still in its      *)
(* loop.                                                                   *)
C32_AtMostOneMonitorAlive ==
    \A t, u \in Monitors :
        (t[2] < u[2] /\ Started(u)) => pc[t] \in {"idle", "done"}

(* A first load, then a second load, stop() and a press of the play/pause  *)
(* button in any interleaving with one another and with the monitors the   *)
(* loads start; the first stream may play to its end.  The glib main loop polls every future that can go on and  *)
(* every Player and Backend call returns: each started task is scheduled   *)
(* with weak fairness; that a load, a stop or a press is started is up to  *)
(* the user.                                                               *)
NextLive ==
    \/ LoadStep(FirstLoad)
    \/ Ended(FirstLoad) /\ LoadStep(SecondLoad)
    \/ Ended(FirstLoad) /\ StopStep(FirstStop)
    \/ Ended(FirstLoad) /\ ClickStep(FirstClick)
    \/ \E t \in Monitors : MonitorStep(t)
    \/ ~Started(SecondLoad) /\ PlayerEndOfStream

FairLive ==
    /\ \A t \in {FirstLoad, SecondLoad} : WF_vars(Started(t) /\ LoadStep(t))
    /\ WF_vars(Started(FirstStop) /\ StopStep(FirstStop))
    /\ WF_vars(Started(FirstClick) /\ ClickStep(FirstClick))
    /\ \A t \in Monitors : WF_vars(MonitorStep(t))

SpecLive == Init /\ [][NextLive]_vars /\ FairLive

C34_EachClickTogglesOnce ==
    \A n \in 1..MaxClicks :
        (/\ \A t \in Loads \cup Stops : ~Started(t)
         /\ \A t \in Clicks : IF t[2] <= n THEN pc[t] = "done" ELSE ~Started(t))
            => IF n % 2 = 1
               THEN /\ icon = "media-playback-pause-symbolic"
                    /\ steps[<<"click", n>>][1] \in {"play_ok", "play_err"}
               ELSE /\ icon = "media-playback-start-symbolic"
                    /\ steps[<<"click", n>>][1] \in {"pause_ok", "pause_err"}

(* C35: the step in which a load fails at Player.load_media or at          *)
(* Player.play, like every step of a load but the one in which play        *)
(* returns Ok, leaves the icon and the inhibition as they are; a load that *)
(* failed there has started neither its track population nor its monitor   *)
(* and neither holds nor waits for the Player lock.                        *)
C35_FailedLoadStartsNothing ==
    [][\A t \in Loads :
          /\ (pc'[t] # pc[t] /\ pc'[t] # "ok") => UNCHANGED <<icon, inhibitVars>>
          /\ pc'[t] = "err_player" =>
                /\ pc'[<<"populate", t[2]>>] = "idle"
                /\ pc'[<<"monitor", t[2]>>] = "idle"
                /\ ~Holds(plock', t)
                /\ \A i \in DOMAIN plock'.queue : plock'.queue[i] # t]_vars

(* the first load failed at Player.play and a press of the play/pause      *)
(* button made after it has been handled                                   *)
C35_PressAfterFailedPlay ==
    /\ pc[FirstLoad] = "err_player"
    /\ Has(steps[FirstLoad], "play")
    /\ ~Started(SecondLoad)
    /\ pc[FirstClick] = "done"
    /\ icon = "media-playback-pause-symbolic"

(* SpecWatch with the scheduling of the main loop: the timers of the       *)
(* monitors fire and every started load and stop goes on (weak fairness);  *)
(* whether the Player ends, fails or is stopped is left open.              *)
FairWatch ==
    /\ \A t \in Loads : WF_vars(Started(t) /\ t[2] <= MaxSessions /\ LoadStep(t))
    /\ WF_vars(Started(FirstStop) /\ StopStep(FirstStop))
    /\ \A t \in Monitors : WF_vars(MonitorStep(t))

SpecWatchFair == SpecWatch /\ FairWatch

(* C36: when the Player reaches Stopped or Error and stays there, every    *)
(* monitor that was started ends, whatever mark_watched returns.           *)
C36_MonitorsEndOnTerminalState ==
    <>[](pstate \in {"Stopped", "Error"})
        => <>[](\A t \in Monitors : Started(t) => pc[t] = "done")

(* the Player is Stopped and a monitor has ended after mark_watched        *)
(* returned Err                                                            *)
C36_EndedThoughMarkFailed ==
    /\ pstate = "Stopped"
    /\ \E t \in Monitors : pc[t] = "done" /\ Has(steps[t], "mark_err")
    /\ \A t \in Monitors : Started(t) => pc[t] = "done"

(* One load, two drags of the progress bar that may overlap and a poller   *)
(* tick.  The main loop polls every started task and fires the settle      *)
(* timers (weak fairness); the Player calls return.                        *)
NextSettle ==
    \/ LoadStep(FirstLoad)
    \/ \E t \in Drags : t[2] <= 2 /\ DragStep(t)
    \/ \E t \in Ticks : t[2] <= 1 /\ TickStep(t)

FairSettle ==
    /\ WF_vars(Started(FirstLoad) /\ LoadStep(FirstLoad))
    /\ \A t \in Drags : WF_vars(Started(t) /\ t[2] <= 2 /\ DragStep(t))
    /\ \A t \in Ticks : WF_vars(Started(t) /\ t[2] <= 1 /\ TickStep(t))

SpecSettle == Init /\ [][NextSettle]_vars /\ FairSettle

(* every drag that was started has run to the end of its settle timer *)
NoDragInFlight == \A t \in Drags : Started(t) => pc[t] = "done"

(* C37: whenever no drag is in flight is_seeking is false, and the drags   *)
(* made all come to their end: is_seeking returns to false after the last  *)
(* drag and stays false until the next one.                                *)
C37_SeekingFlagSettles ==
    /\ [](NoDragInFlight => ~is_seeking)
    /\ <>[]NoDragInFlight

(* two drags have ended, the first found no duration, the second sought a  *)
(* position, and a tick has read is_seeking as false after them            *)
C37_SettledAfterTwoDrags ==
    /\ pc[<<"drag", 1>>] = "done" /\ seen[<<"drag", 1>>] = None
    /\ pc[<<"drag", 2>>] = "done" /\ seen[<<"drag", 2>>] # None
    /\ ~is_seeking
    /\ pc[<<"tick", 1>>] = "done" /\ seen[<<"tick", 1>>] = 0
    /\ progress # loc[<<"drag", 2>>]

(* two loads one after the other, stop() and the ticks of the position    *)
(* timer                                                                   *)
NextPoll ==
    \/ LoadStep(FirstLoad)
    \/ Ended(FirstLoad) /\ LoadStep(SecondLoad)
    \/ StopStep(FirstStop)
    \/ \E t \in Ticks : TickStep(t)

SpecPoll == Init /\ [][NextPoll]_vars

(* C38: the main loop holds exactly one position timer in every state,     *)
(* whatever loads and stops have happened, and the timer can fire again    *)
(* as long as ticks are left to be counted.                                *)
C38_OnePositionTimer ==
    /\ position_timers = 1
    /\ (\E t \in Ticks : pc[t] = "idle") => ENABLED (\E t \in Ticks : TickBegin(t))

(* stop() has returned after two loads, and the timer, still the only     *)
(* one, can fire                                                           *)
C38_TickingAfterStop ==
    /\ pc[FirstStop] = "done"
    /\ pstate = "Stopped"
    /\ pc[FirstLoad] = "ok" /\ pc[SecondLoad] = "ok"
    /\ position_timers = 1
    /\ ENABLED TickBegin(<<"tick", 1>>)

----------------------------------------------------------------------------
(* The skip controls: the Left and Right arrow keys of the key controller  *)
(* (lines 169-197) and the rewind and forward buttons (lines 933-961).     *)
(* Task t = <<"skip", n>>: steps[t][1] is the control used, loc[t] the     *)
(* position read, seen[t] the position Player.seek is called with.        *)
SkipControls == {"key_left", "key_right", "rewind_button", "forward_button"}

(* Duration::saturating_sub *)
SaturatingSub(a, b) == IF a > b THEN a - b ELSE 0

(* lines 175, 189, 940, 955: new_position, in seconds *)
SkipTarget(control, position) ==
    CASE control = "key_left" -> SaturatingSub(position, 10)
      [] control = "key_right" -> position + 30
      [] control = "rewind_button" -> SaturatingSub(position, 10)
      [] control = "forward_button" -> position + 10

(* lines 169-173, 184-187, 934-938, 949-953: the key is pressed or the     *)
(* button clicked; the task is spawned and reaches player.read().await     *)
SkipBegin(t) ==
    /\ t \in Skips
    /\ MayStart(t)
    /\ \E control \in SkipControls : Log(t, <<control>>)
    /\ plock' = Request(plock, t)
    /\ Goto(t, "w_player")
    /\ UNCHANGED <<loc, seen, before, playerVars, mlock, sessionVars, inhibitVars,
                   is_seeking, icon, displayVars, video_container, has_root, hoverVars,
                   menuVars, watched>>

(* lines 174, 188, 939, 954: Player.get_position is called *)
SkipPositionCall(t) ==
    /\ t \in Skips
    /\ pc[t] = "w_player"
    /\ Holds(plock, t)
    /\ Goto(t, "get_position")
    /\ UNCHANGED <<loc, seen, before, steps, playerVars, plock, mlock, sessionVars,
                   inhibitVars, is_seeking, icon, displayVars, video_container,
                   has_root, hoverVars, menuVars, watched>>

(* lines 174-176, 188-190, 939-941, 954-956: get_position returns; with a  *)
(* position Player.seek is called with new_position, under the read guard; *)
(* without one the task ends.                                              *)
SkipPositionReturn(t) ==
    /\ t \in Skips
    /\ pc[t] = "get_position"
    /\ \E position \in {ppos, None} :
          /\ loc' = [loc EXCEPT ![t] = position]
          /\ IF position # None
             THEN /\ seen' = [seen EXCEPT ![t] = SkipTarget(steps[t][1], position)]
                  /\ Goto(t, "seek")
                  /\ UNCHANGED plock
             ELSE /\ plock' = Release(plock, t)
                  /\ Goto(t, "done")
                  /\ UNCHANGED seen
    /\ UNCHANGED <<before, steps, playerVars, mlock, sessionVars, inhibitVars,
                   is_seeking, icon, displayVars, video_container, has_root, hoverVars,
                   menuVars, watched>>

(* lines 176-178, 190-192, 941-943, 956-958: seek returns, Ok or Err (an   *)
(* Err is only logged); the task ends.                                     *)
SkipSeekReturn(t) ==
    /\ t \in Skips
    /\ pc[t] = "seek"
    /\ \E ok \in BOOLEAN :
          /\ PlayerSeek(seen[t], ok)
          /\ Log(t, <<IF ok THEN "seek_ok" ELSE "seek_err">>)
    /\ plock' = Release(plock, t)
    /\ Goto(t, "done")
    /\ UNCHANGED <<loc, seen, before, mlock, sessionVars, inhibitVars, is_seeking,
                   icon, displayVars, video_container, has_root, hoverVars, menuVars,
                   watched>>

SkipStep(t) ==
    \/ SkipBegin(t)
    \/ SkipPositionCall(t)
    \/ SkipPositionReturn(t)
    \/ SkipSeekReturn(t)

(* One load, the positions the Player reports before the first skip, and   *)
(* the skip controls.                                                      *)
FirstSkip == <<"skip", 1>>

NextSkip ==
    \/ LoadStep(FirstLoad)
    \/ Ended(FirstLoad) /\ ~Started(FirstSkip) /\ PlayerReports
    \/ \E t \in Skips : SkipStep(t)

SpecSkip == Init /\ [][NextSkip]_vars

(* C39: the Right arrow key and the forward button seek to the position    *)
(* read plus 10 seconds, the Left arrow key and the rewind button to the   *)
(* position read minus 10 seconds, clamped at 0; when get_position returns *)
(* no position, Player.seek is not called.                                 *)
C39_SkipControlsStepTenSeconds ==
    \A t \in Skips :
       /\ (pc[t] \in {"seek", "done"} /\ loc[t] # None) =>
             seen[t] = IF steps[t][1] \in {"key_right", "forward_button"}
                       THEN loc[t] + 10
                       ELSE IF loc[t] > 10 THEN loc[t] - 10 ELSE 0
       /\ (pc[t] = "done" /\ loc[t] = None) => (seen[t] = None /\ Len(steps[t]) = 1)

====
